---- MODULE Spec2Model ----
(***************************************************************************)
(* Model of the miniclaw agent orchestration engine: the tool-calling loop *)
(* of Agent::process_message (src/agent.rs), its context compaction, the   *)
(* confirmation gate for Dangerous tool calls and the risk classifier      *)
(* (src/tools/risk.rs).                                                    *)
(*                                                                         *)
(* Text that the code only measures or copies (message contents) is a TLA+ *)
(* string; text that the code parses (tool-call arguments, shell commands) *)
(* is a sequence of one-character strings.                                 *)
(***************************************************************************)
EXTENDS Integers, Sequences, FiniteSets, TLC

(***************************************************************************)
(* Bounds of the model                                                     *)
(***************************************************************************)
\* largest iteration cap (config.agent.max_iterations) explored
MaxIterCap == 2
\* largest number of tool calls in one model response
MaxCalls == 2
\* process_message is not started on a transcript longer than this
MaxMessages == 4
\* largest number of model calls completed in the life of the Agent
MaxRequests == 2
\* largest number of frame ends a single read of a byte stream passes over
MaxSpan == 1

(***************************************************************************)
(* Character-level helpers (Rust str methods used by the code)             *)
(***************************************************************************)
\* char::is_whitespace on the characters the model uses
IsWhitespace(c) == c \in {" ", "\t", "\n", "\r"}

\* char::is_ascii_digit
IsAsciiDigit(c) == c \in {"0", "1", "2", "3", "4", "5", "6", "7", "8", "9"}

\* the String made of the characters of cs
RECURSIVE Str(_)
Str(cs) == IF cs = <<>> THEN "" ELSE cs[1] \o Str(Tail(cs))

\* cs[from..], empty when from is past the end
Drop(cs, n) == SubSeq(cs, n + 1, Len(cs))

Take(cs, n) == SubSeq(cs, 1, n)

\* str::starts_with for a pattern given as a String
StartsWith(cs, pat) == \E n \in 0..Len(cs) : Str(Take(cs, n)) = pat

\* str::ends_with for a pattern given as a String
EndsWith(cs, pat) == \E n \in 0..Len(cs) : Str(Drop(cs, n)) = pat

\* str::trim_start
RECURSIVE TrimStart(_)
TrimStart(cs) ==
    IF cs # <<>> /\ IsWhitespace(cs[1]) THEN TrimStart(Tail(cs)) ELSE cs

\* str::trim_end
RECURSIVE TrimEnd(_)
TrimEnd(cs) ==
    IF cs # <<>> /\ IsWhitespace(cs[Len(cs)])
    THEN TrimEnd(Take(cs, Len(cs) - 1))
    ELSE cs

\* str::trim
Trim(cs) == TrimEnd(TrimStart(cs))

\* Iterator::take_while(|c| !c.is_whitespace())
RECURSIVE TakeNonWhitespace(_)
TakeNonWhitespace(cs) ==
    IF cs = <<>> \/ IsWhitespace(cs[1]) THEN <<>>
    ELSE <<cs[1]>> \o TakeNonWhitespace(Tail(cs))

\* str::split_whitespace().next().unwrap_or("")
FirstWord(cs) == TakeNonWhitespace(TrimStart(cs))

\* str::split(sep) for a separator of one or two characters: the pieces
\* between the non-overlapping matches of sep, found left to right
RECURSIVE SplitFrom(_, _, _)
SplitFrom(cs, sep, cur) ==
    IF cs = <<>> THEN <<cur>>
    ELSE IF Len(cs) >= Len(sep) /\ Take(cs, Len(sep)) = sep
         THEN <<cur>> \o SplitFrom(Drop(cs, Len(sep)), sep, <<>>)
         ELSE SplitFrom(Tail(cs), sep, Append(cur, cs[1]))

Split(cs, sep) == SplitFrom(cs, sep, <<>>)

\* Iterator::flat_map over a sequence of pieces
RECURSIVE FlatMapSplit(_, _)
FlatMapSplit(pieces, sep) ==
    IF pieces = <<>> THEN <<>>
    ELSE Split(pieces[1], sep) \o FlatMapSplit(Tail(pieces), sep)

\* map(|s| s.trim()).filter(|s| !s.is_empty())
RECURSIVE TrimNonEmpty(_)
TrimNonEmpty(pieces) ==
    IF pieces = <<>> THEN <<>>
    ELSE IF Trim(pieces[1]) = <<>> THEN TrimNonEmpty(Tail(pieces))
         ELSE <<Trim(pieces[1])>> \o TrimNonEmpty(Tail(pieces))

(***************************************************************************)
(* serde_json::from_str(arguments) followed by args["command"].as_str(),   *)
(* for argument texts that are a flat JSON object with string members      *)
(* (every other text is treated as unparseable, which yields Null)         *)
(***************************************************************************)
\* the characters of a JSON string after its opening quote, up to the
\* closing quote: [ok, val, rest]
RECURSIVE JsonStringBody(_, _)
JsonStringBody(cs, acc) ==
    IF cs = <<>> THEN [ok |-> FALSE, val |-> <<>>, rest |-> <<>>]
    ELSE IF cs[1] = "\"" THEN [ok |-> TRUE, val |-> acc, rest |-> Tail(cs)]
    ELSE IF cs[1] = "\\"
         THEN IF Len(cs) >= 2 /\ cs[2] \in {"\"", "\\", "/"}
              THEN JsonStringBody(Drop(cs, 2), Append(acc, cs[2]))
              ELSE IF Len(cs) >= 2 /\ cs[2] = "n"
                   THEN JsonStringBody(Drop(cs, 2), Append(acc, "\n"))
                   ELSE IF Len(cs) >= 2 /\ cs[2] = "t"
                        THEN JsonStringBody(Drop(cs, 2), Append(acc, "\t"))
                        ELSE [ok |-> FALSE, val |-> <<>>, rest |-> <<>>]
    ELSE IF cs[1] \in {"\n", "\t", "\r"}
         THEN [ok |-> FALSE, val |-> <<>>, rest |-> <<>>]
         ELSE JsonStringBody(Tail(cs), Append(acc, cs[1]))

JsonString(cs) ==
    IF cs # <<>> /\ cs[1] = "\"" THEN JsonStringBody(Tail(cs), <<>>)
    ELSE [ok |-> FALSE, val |-> <<>>, rest |-> <<>>]

\* the members of an object, cs starting at a key; cmd is the value of the
\* last "command" member seen; [ok, val]
RECURSIVE JsonMembers(_, _)
JsonMembers(cs, cmd) ==
    LET k == JsonString(cs)
        afterKey == TrimStart(k.rest)
        v == JsonString(TrimStart(Tail(afterKey)))
        afterVal == TrimStart(v.rest)
        cmd2 == IF Str(k.val) = "command" THEN v.val ELSE cmd
    IN  IF ~k.ok \/ afterKey = <<>> \/ afterKey[1] # ":" THEN [ok |-> FALSE, val |-> <<>>]
        ELSE IF ~v.ok \/ afterVal = <<>> THEN [ok |-> FALSE, val |-> <<>>]
        ELSE IF afterVal[1] = ","
             THEN JsonMembers(TrimStart(Tail(afterVal)), cmd2)
             ELSE IF afterVal[1] = "}" /\ TrimStart(Tail(afterVal)) = <<>>
                  THEN [ok |-> TRUE, val |-> cmd2]
                  ELSE [ok |-> FALSE, val |-> <<>>]

\* [ok, val]: whether the text parses, and the value of its "command"
\* member (empty when the member is absent)
JsonObject(text) ==
    LET s == TrimStart(text)
        body == TrimStart(Tail(s))
    IN  IF s = <<>> \/ s[1] # "{" THEN [ok |-> FALSE, val |-> <<>>]
        ELSE IF body # <<>> /\ body[1] = "}"
             THEN [ok |-> TrimStart(Tail(body)) = <<>>, val |-> <<>>]
             ELSE JsonMembers(body, <<>>)

\* serde_json::from_str(arguments).unwrap_or(Null)["command"]
\*     .as_str().unwrap_or("")
JsonCommand(arguments) ==
    IF JsonObject(arguments).ok THEN JsonObject(arguments).val ELSE <<>>

(***************************************************************************)
(* Risk classifier (src/tools/risk.rs)                                     *)
(***************************************************************************)
RiskLevel == {"Safe", "Moderate", "Dangerous"}

DANGEROUS_COMMAND_WORDS ==
    {"rm", "rmdir", "sudo", "su", "kill", "pkill", "killall", "chmod",
     "chown", "chgrp", "dd", "mkfs", "fdisk", "parted", "mount", "umount",
     "shutdown", "reboot", "systemctl", "service", "iptables", "useradd",
     "userdel", "passwd"}

SAFE_PATTERNS ==
    {"ls", "cat", "head", "tail", "less", "more", "wc", "echo", "printf",
     "pwd", "whoami", "which", "where", "type", "file", "stat", "du", "df",
     "date", "uname", "env", "printenv", "grep", "rg", "find", "fd", "ag",
     "awk", "sed", "sort", "uniq", "diff", "tree", "git", "cargo", "rustc",
     "rustup", "npm", "node", "python", "python3", "pip", "pip3", "go",
     "make", "cmake", "docker", "kubectl", "cd", "sleep"}

is_safe_redirect_target(target) ==
    LET t == Trim(target)
    IN  \/ target = <<>>
        \/ Str(t) = "/dev/null"
        \/ /\ t # <<>> /\ t[1] = "&" /\ Len(t) > 1
           /\ \A k \in 2..Len(t) : IsAsciiDigit(t[k])
        \/ Str(t) = "/tmp" \/ StartsWith(t, "/tmp/")
        \/ Str(t) = "/var/tmp" \/ StartsWith(t, "/var/tmp/")

\* the scan of has_dangerous_redirect from index i (1-based)
RECURSIVE RedirectScan(_, _)
RedirectScan(chars, i) ==
    IF i > Len(chars) THEN FALSE
    ELSE IF chars[i] = ">"
         THEN LET j1 == IF i + 1 <= Len(chars) /\ chars[i + 1] = ">"
                        THEN i + 2 ELSE i + 1
                  spaces == CHOOSE n \in 0..Len(chars) :
                              /\ \A k \in j1..(j1 + n - 1) :
                                    k <= Len(chars) /\ chars[k] = " "
                              /\ ~(j1 + n <= Len(chars) /\ chars[j1 + n] = " ")
                  j == j1 + spaces
                  target == TakeNonWhitespace(Drop(chars, j - 1))
              IN  IF target # <<>> /\ ~is_safe_redirect_target(target)
                  THEN IF i > 1 /\ IsAsciiDigit(chars[i - 1])
                          /\ is_safe_redirect_target(
                                 TakeNonWhitespace(Drop(chars, j - 1)))
                       THEN RedirectScan(chars, j)
                       ELSE TRUE
                  ELSE RedirectScan(chars, i + 1)
         ELSE RedirectScan(chars, i + 1)

has_dangerous_redirect(cmd) == RedirectScan(cmd, 1)

\* mutation of classify_single_command: only the first pipeline stage is
\* matched against the denylist
classify_single_command_head(cmd) ==
    LET pipe_segments == Split(cmd, <<"|">>)
        first_word == FirstWord(cmd)
    IN  IF Str(FirstWord(Trim(pipe_segments[1]))) \in DANGEROUS_COMMAND_WORDS
        THEN "Dangerous"
        ELSE IF has_dangerous_redirect(cmd) THEN "Dangerous"
        ELSE IF \E pattern \in SAFE_PATTERNS :
                    \/ Str(first_word) = pattern
                    \/ /\ \E k \in 1..Len(first_word) : first_word[k] = "/"
                       /\ EndsWith(first_word, pattern)
             THEN "Safe"
             ELSE "Moderate"

classify_single_command(cmd) ==
    LET pipe_segments == Split(cmd, <<"|">>)
        first_word == FirstWord(cmd)
    IN  IF \E s \in 1..Len(pipe_segments) :
               Str(FirstWord(Trim(pipe_segments[s]))) \in DANGEROUS_COMMAND_WORDS
        THEN "Dangerous"
        ELSE IF has_dangerous_redirect(cmd) THEN "Dangerous"
        ELSE IF \E pattern \in SAFE_PATTERNS :
                    \/ Str(first_word) = pattern
                    \/ /\ \E k \in 1..Len(first_word) : first_word[k] = "/"
                       /\ EndsWith(first_word, pattern)
             THEN "Safe"
             ELSE "Moderate"

\* mutation of WorstOf: the level of the first sub-command only
WorstOf_first(sub_commands, worst) ==
    IF sub_commands = <<>> THEN worst
    ELSE classify_single_command(sub_commands[1])

\* the loop over sub_commands, worst being the level reached so far
RECURSIVE WorstOf(_, _)
WorstOf(sub_commands, worst) ==
    IF sub_commands = <<>> THEN worst
    ELSE LET level == classify_single_command(sub_commands[1])
         IN  IF level = "Dangerous" THEN "Dangerous"
             ELSE IF level = "Moderate" /\ worst = "Safe"
                  THEN WorstOf(Tail(sub_commands), "Moderate")
                  ELSE WorstOf(Tail(sub_commands), worst)

classify_bash_command(command) ==
    LET cmd == Trim(command)
        sub_commands ==
            TrimNonEmpty(FlatMapSplit(Split(cmd, <<"&", "&">>), <<"|", "|">>))
    IN  WorstOf(sub_commands, "Safe")

assess_bash_risk(arguments) == classify_bash_command(JsonCommand(arguments))

\* mutation of assess_risk: every tool is assessed by its arguments
assess_risk_by_arguments(tool_name, arguments) == assess_bash_risk(arguments)

assess_risk(tool_name, arguments) ==
    IF tool_name \in {"read_file", "list_directory"} THEN "Safe"
    ELSE IF tool_name \in {"write_file", "edit"} THEN "Moderate"
    ELSE IF tool_name = "bash" THEN assess_bash_risk(arguments)
    ELSE "Moderate"

(***************************************************************************)
(* Messages (src/types.rs)                                                 *)
(***************************************************************************)
Role == {"System", "User", "Assistant", "Tool"}

\* Option<String>: <<>> is None, <<id>> is Some(id)
None == <<>>

Some(v) == <<v>>

Message_system(content) ==
    [role |-> "System", content |-> content, tool_calls |-> <<>>,
     tool_call_id |-> None]

Message_user(content) ==
    [role |-> "User", content |-> content, tool_calls |-> <<>>,
     tool_call_id |-> None]

Message_assistant(content) ==
    [role |-> "Assistant", content |-> content, tool_calls |-> <<>>,
     tool_call_id |-> None]

Message_assistant_with_tool_calls(content, tool_calls) ==
    [role |-> "Assistant", content |-> content, tool_calls |-> tool_calls,
     tool_call_id |-> None]

Message_tool_result(tool_call_id, content) ==
    [role |-> "Tool", content |-> content, tool_calls |-> <<>>,
     tool_call_id |-> Some(tool_call_id)]

\* ChatResponse::has_tool_calls
has_tool_calls(response) == response.tool_calls # <<>>

(***************************************************************************)
(* Inputs of the model: what the user, the model backend and the tools may *)
(* produce                                                                 *)
(***************************************************************************)
\* the system prompt built by Agent::new
SystemPrompt == "You are miniclaw"

UserInputs == {"hi", "please fix the failing build"}

\* tool calls a model response may carry
TC_read ==
    [id |-> "call_a", name |-> "read_file",
     arguments |-> <<"{", "\"", "p", "a", "t", "h", "\"", ":", "\"", "a", "\"", "}">>]

TC_rm ==
    [id |-> "call_b", name |-> "bash",
     arguments |-> <<"{", "\"", "c", "o", "m", "m", "a", "n", "d", "\"", ":", "\"", "r", "m", " ", "a", "\"", "}">>]

\* a call whose arguments are not JSON
TC_bad ==
    [id |-> "call_c", name |-> "read_file", arguments |-> <<"{">>]

ToolCallPool == {TC_read, TC_rm, TC_bad}

\* content of a model response
ResponseContents == {"ok"}

\* sequences of at most n distinct tool calls of the pool
ToolCallSeqs(n) ==
    {tcs \in UNION {[1..k -> ToolCallPool] : k \in 0..n} :
        \A i, j \in 1..Len(tcs) : i # j => tcs[i] # tcs[j]}

\* what a tool body may return: Ok(output) or Err(e)
ToolOutcomes ==
    {[ok |-> TRUE, text |-> "fn main() { println!(1); }"],
     [ok |-> FALSE, text |-> "No such file"]}

\* usage a response may report (ChatResponse.usage)
Usages ==
    {None, Some([input_tokens |-> 3, output_tokens |-> 2])}

\* the responses the model backend may return: a final answer with or
\* without usage, or at most n tool calls with usage
Responses(n) ==
    {r \in [content : ResponseContents, tool_calls : ToolCallSeqs(n),
            usage : Usages] :
        r.tool_calls # <<>> => r.usage # None}

\* context windows of the active model (config context_window)
ContextWindows == {10, 30}

\* names of the tools registered in the router given to Agent::new
Routers == {{"read_file"}, {"read_file", "bash"}}

(***************************************************************************)
(* Token estimate and compaction (src/agent.rs)                            *)
(***************************************************************************)
Max(a, b) == IF a >= b THEN a ELSE b

\* (char_count / 3).max(1)
estimate_tokens(text) == Max(Len(text) \div 3, 1)

RECURSIVE ToolTokens(_)
ToolTokens(tool_calls) ==
    IF tool_calls = <<>> THEN 0
    ELSE estimate_tokens(tool_calls[1].arguments) + 10
         + ToolTokens(Tail(tool_calls))

MessageTokens(m) ==
    estimate_tokens(m.content) + ToolTokens(m.tool_calls) + 4

RECURSIVE estimate_context_tokens(_)
estimate_context_tokens(msgs) ==
    IF msgs = <<>> THEN 0
    ELSE MessageTokens(msgs[1]) + estimate_context_tokens(Tail(msgs))

\* (limit as f64 * 0.85) as u64
Threshold(limit) == (limit * 85) \div 100

\* mutation of Remove1: remove(0)
Remove0(msgs) == Tail(msgs)

\* Vec::remove(1)
Remove1(msgs) == <<msgs[1]>> \o SubSeq(msgs, 3, Len(msgs))

\* mutation of CompactLoop: the loop runs while more than 1 message is left
RECURSIVE CompactLoop_min1(_, _)
CompactLoop_min1(msgs, threshold) ==
    IF Len(msgs) > 1 /\ estimate_context_tokens(msgs) > threshold
    THEN CompactLoop_min1(Remove1(msgs), threshold)
    ELSE msgs

\* mutation of CompactLoop: an if in place of the while
CompactLoop_once(msgs, threshold) ==
    IF Len(msgs) > 2 /\ estimate_context_tokens(msgs) > threshold
    THEN Remove1(msgs)
    ELSE msgs

\* the while loop of compact_context
RECURSIVE CompactLoop(_, _)
CompactLoop(msgs, threshold) ==
    IF Len(msgs) > 2 /\ estimate_context_tokens(msgs) > threshold
    THEN CompactLoop(Remove1(msgs), threshold)
    ELSE msgs

compact_context(msgs, limit) ==
    IF estimate_context_tokens(msgs) <= Threshold(limit) THEN msgs
    ELSE CompactLoop(msgs, Threshold(limit))

\* Vec::truncate(1)
clear_history(msgs) == IF Len(msgs) > 1 THEN SubSeq(msgs, 1, 1) ELSE msgs

(***************************************************************************)
(* Pieces of Agent::process_message (src/agent.rs)                         *)
(***************************************************************************)
\* format!("{}", n) for an unsigned integer
DigitChar(d) ==
    CASE d = 0 -> "0" [] d = 1 -> "1" [] d = 2 -> "2" [] d = 3 -> "3"
      [] d = 4 -> "4" [] d = 5 -> "5" [] d = 6 -> "6" [] d = 7 -> "7"
      [] d = 8 -> "8" [] d = 9 -> "9"

RECURSIVE ToDecimal(_)
ToDecimal(n) ==
    IF n < 10 THEN DigitChar(n)
    ELSE ToDecimal(n \div 10) \o DigitChar(n % 10)

\* the synthetic message returned when the iteration cap is passed
stop_msg(max_iterations) ==
    "[Agent stopped: reached maximum of " \o ToDecimal(max_iterations)
        \o " iterations]"

\* mutation of CapReached: the cap compared with >=
CapReached_ge(iterations, max_iterations) == iterations >= max_iterations

\* if iterations > max_iterations
CapReached(iterations, max_iterations) == iterations > max_iterations

\* SessionStats::default()
SessionStats_default ==
    [total_input_tokens |-> 0, total_output_tokens |-> 0, request_count |-> 0]

\* mutation of record_usage: a response without usage is not counted
record_usage_gated(st, usage) ==
    IF usage # None
    THEN [total_input_tokens |-> st.total_input_tokens + usage[1].input_tokens,
          total_output_tokens |-> st.total_output_tokens + usage[1].output_tokens,
          request_count |-> st.request_count + 1]
    ELSE st

\* SessionStats::record_usage
record_usage(st, usage) ==
    [total_input_tokens |->
         IF usage # None THEN st.total_input_tokens + usage[1].input_tokens
         ELSE st.total_input_tokens,
     total_output_tokens |->
         IF usage # None THEN st.total_output_tokens + usage[1].output_tokens
         ELSE st.total_output_tokens,
     request_count |-> st.request_count + 1]

\* emit(evt): sent only when an event sink is attached
Emit(evts, m, evt) == IF m = "tab" THEN Append(evts, evt) ELSE evts

\* the text deltas of a response of the provider: one delta with the whole
\* content, none for an empty content
Deltas(content) == IF content # "" THEN <<content>> ELSE <<>>

\* the forwarding task: every TextDelta chunk becomes a StreamDelta event
RECURSIVE ForwardDeltas(_, _, _)
ForwardDeltas(evts, m, deltas) ==
    IF deltas = <<>> THEN evts
    ELSE ForwardDeltas(Emit(evts, m, [type |-> "StreamDelta", text |-> deltas[1]]),
                       m, Tail(deltas))

\* mutation of LlmError: the failed call is swallowed into an empty answer
LlmError_swallowed == [kind |-> "ok", text |-> ""]

\* chat_completion_stream(..).await.context("LLM streaming call failed")?
LlmError == [kind |-> "err", text |-> "LLM streaming call failed"]

\* mutation of NeedsConfirm: no call is held for confirmation
NeedsConfirm_never(tool_call) == FALSE

\* if risk == RiskLevel::Dangerous
NeedsConfirm(tool_call) ==
    assess_risk(tool_call.name, tool_call.arguments) = "Dangerous"

\* what rx.recv().await returns once it returns: Some(v) for the oldest
\* decision in the channel, None when the channel is empty (and closed)
Recv(chan) == IF chan # <<>> THEN Some(chan[1].val) ELSE None

\* mutation of Denied: the continue of the denial branch is missing
Denied_never(approved) == FALSE

\* if !approved: the call is denied and the loop continues with the next
Denied(approved) == ~approved

\* mutation of UnwrapDecision: unwrap_or(true)
UnwrapDecision_true(received) == IF received = None THEN TRUE ELSE received[1]

\* Option::unwrap_or(false) on the received decision
UnwrapDecision(received) == IF received = None THEN FALSE ELSE received[1]

deny_msg(name) == "Tool call '" \o name \o "' was denied by the user."

\* mutation of PushDenied: the denial leaves no Tool message
PushDenied_skip(msgs, tool_call) == msgs

\* the transcript after a denied call
PushDenied(msgs, tool_call) ==
    Append(msgs, Message_tool_result(tool_call.id, deny_msg(tool_call.name)))

(***************************************************************************)
(* serde_json::from_str::<serde_json::Value> on the payload of a data line *)
(* and on the arguments of a tool call: objects, arrays, strings, unsigned *)
(* integers and the literals                                               *)
(***************************************************************************)
JsonVal(t, s, n, members, elems) ==
    [t |-> t, s |-> s, n |-> n, members |-> members, elems |-> elems]

JsonNull == JsonVal("null", <<>>, 0, <<>>, <<>>)

JsonFail == [ok |-> FALSE, val |-> JsonNull, rest |-> <<>>]

\* the digits at the head of cs as a number: [n, rest]
RECURSIVE JsonDigits(_, _)
JsonDigits(cs, n) ==
    IF cs # <<>> /\ IsAsciiDigit(cs[1])
    THEN JsonDigits(Tail(cs),
                    n * 10 + (CHOOSE d \in 0..9 :
                                 <<"0", "1", "2", "3", "4", "5", "6", "7", "8", "9">>[d + 1]
                                     = cs[1]))
    ELSE [n |-> n, rest |-> cs]

RECURSIVE JsonValue(_), JsonFields(_, _), JsonElements(_, _)
\* one JSON value at the head of cs: [ok, val, rest]
JsonValue(cs0) ==
    LET cs == TrimStart(cs0)
    IN  IF cs = <<>> THEN JsonFail
        ELSE IF cs[1] = "\""
        THEN LET s == JsonString(cs)
             IN  IF s.ok
                 THEN [ok |-> TRUE,
                       val |-> JsonVal("str", s.val, 0, <<>>, <<>>),
                       rest |-> s.rest]
                 ELSE JsonFail
        ELSE IF cs[1] = "{"
        THEN LET b == TrimStart(Tail(cs))
             IN  IF b # <<>> /\ b[1] = "}"
                 THEN [ok |-> TRUE,
                       val |-> JsonVal("obj", <<>>, 0, <<>>, <<>>),
                       rest |-> Tail(b)]
                 ELSE JsonFields(b, <<>>)
        ELSE IF cs[1] = "["
        THEN LET b == TrimStart(Tail(cs))
             IN  IF b # <<>> /\ b[1] = "]"
                 THEN [ok |-> TRUE,
                       val |-> JsonVal("arr", <<>>, 0, <<>>, <<>>),
                       rest |-> Tail(b)]
                 ELSE JsonElements(b, <<>>)
        ELSE IF IsAsciiDigit(cs[1])
        THEN LET d == JsonDigits(cs, 0)
             IN  [ok |-> TRUE, val |-> JsonVal("num", <<>>, d.n, <<>>, <<>>),
                  rest |-> d.rest]
        ELSE IF Len(cs) >= 4 /\ Take(cs, 4) = <<"n", "u", "l", "l">>
        THEN [ok |-> TRUE, val |-> JsonNull, rest |-> Drop(cs, 4)]
        ELSE IF Len(cs) >= 4 /\ Take(cs, 4) = <<"t", "r", "u", "e">>
        THEN [ok |-> TRUE, val |-> JsonVal("true", <<>>, 0, <<>>, <<>>),
              rest |-> Drop(cs, 4)]
        ELSE IF Len(cs) >= 5 /\ Take(cs, 5) = <<"f", "a", "l", "s", "e">>
        THEN [ok |-> TRUE, val |-> JsonVal("false", <<>>, 0, <<>>, <<>>),
              rest |-> Drop(cs, 5)]
        ELSE JsonFail

\* the members of an object from a key on, acc the members read so far
JsonFields(cs, acc) ==
    LET k == JsonString(cs)
        afterKey == TrimStart(k.rest)
        v == JsonValue(Tail(afterKey))
        afterVal == TrimStart(v.rest)
        acc2 == Append(acc, [k |-> Str(k.val), v |-> v.val])
    IN  IF ~k.ok \/ afterKey = <<>> \/ afterKey[1] # ":" THEN JsonFail
        ELSE IF ~v.ok \/ afterVal = <<>> THEN JsonFail
        ELSE IF afterVal[1] = "," THEN JsonFields(TrimStart(Tail(afterVal)), acc2)
        ELSE IF afterVal[1] = "}"
             THEN [ok |-> TRUE, val |-> JsonVal("obj", <<>>, 0, acc2, <<>>),
                   rest |-> Tail(afterVal)]
             ELSE JsonFail

\* the elements of an array from an element on
JsonElements(cs, acc) ==
    LET v == JsonValue(cs)
        afterVal == TrimStart(v.rest)
        acc2 == Append(acc, v.val)
    IN  IF ~v.ok \/ afterVal = <<>> THEN JsonFail
        ELSE IF afterVal[1] = "," THEN JsonElements(Tail(afterVal), acc2)
        ELSE IF afterVal[1] = "]"
             THEN [ok |-> TRUE, val |-> JsonVal("arr", <<>>, 0, <<>>, acc2),
                   rest |-> Tail(afterVal)]
             ELSE JsonFail

\* serde_json::from_str(data): Some(value), or None for an Err
from_str(data) ==
    LET r == JsonValue(data)
    IN  IF r.ok /\ TrimStart(r.rest) = <<>> THEN Some(r.val) ELSE None

\* Value::get(key): the last member named key of an object
Get(v, key) ==
    IF v.t = "obj" /\ \E i \in 1..Len(v.members) : v.members[i].k = key
    THEN LET i == CHOOSE i \in 1..Len(v.members) :
                      /\ v.members[i].k = key
                      /\ \A j \in (i + 1)..Len(v.members) : v.members[j].k # key
         IN  Some(v.members[i].v)
    ELSE None

\* Option::and_then(|v| v.get(key))
AndGet(opt, key) == IF opt = None THEN None ELSE Get(opt[1], key)

\* and_then(|v| v.as_str())
AsStr(opt) == IF opt # None /\ opt[1].t = "str" THEN Some(opt[1].s) ELSE None

\* and_then(|v| v.as_u64())
AsU64(opt) == IF opt # None /\ opt[1].t = "num" THEN Some(opt[1].n) ELSE None

\* Option::unwrap_or(default)
UnwrapOr(opt, default) == IF opt = None THEN default ELSE opt[1]

\* serde_json::from_str(arguments) succeeds
JsonParses(arguments) == from_str(arguments) # None

\* ToolRouter::execute (src/tools/mod.rs): outcome is what the tool body
\* returns if it is invoked; invoked tells whether Tool::execute ran
\* mutation of RouterExecute: the arguments are parsed before the name is
\* looked up
RouterExecute_parse_first(tools, name, arguments, outcome) ==
    IF ~JsonParses(arguments)
    THEN [ok |-> FALSE,
          text |-> "Invalid JSON arguments for tool '" \o name \o "': "
                     \o Str(arguments),
          invoked |-> FALSE]
    ELSE IF name \notin tools
         THEN [ok |-> FALSE, text |-> "Unknown tool: " \o name,
               invoked |-> FALSE]
         ELSE [ok |-> outcome.ok, text |-> outcome.text, invoked |-> TRUE]

RouterExecute(tools, name, arguments, outcome) ==
    IF name \notin tools
    THEN [ok |-> FALSE, text |-> "Unknown tool: " \o name, invoked |-> FALSE]
    ELSE IF ~JsonParses(arguments)
         THEN [ok |-> FALSE,
               text |-> "Invalid JSON arguments for tool '" \o name \o "': "
                          \o Str(arguments),
               invoked |-> FALSE]
         ELSE [ok |-> outcome.ok, text |-> outcome.text, invoked |-> TRUE]

\* mutation of ResultText: the Err arm passes the error on without the prefix
ResultText_raw(result) == result.text

\* (result_text, success) of a router result
ResultText(result) ==
    IF result.ok THEN result.text ELSE "Error: " \o result.text

\* the transcript after an executed call
PushResult(msgs, tool_call, result) ==
    Append(msgs, Message_tool_result(tool_call.id, ResultText(result)))

(***************************************************************************)
(* The streaming parsers (src/llm/anthropic.rs: Format A,                  *)
(* src/llm/openai_compatible.rs: Format B). A parser state holds the line  *)
(* buffer, the accumulators and the chunks sent on chunk_tx so far.        *)
(***************************************************************************)
\* the words of the two wire formats, as characters: event names, member
\* names and values of Format A, member names of Format B and its end marker
W ==
    [event_delta |->
         <<"c", "o", "n", "t", "e", "n", "t", "_", "b", "l", "o", "c", "k", "_", "d", "e", "l", "t", "a">>,
     event_start |->
         <<"c", "o", "n", "t", "e", "n", "t", "_", "b", "l", "o", "c", "k", "_", "s", "t", "a", "r", "t">>,
     message_start |->
         <<"m", "e", "s", "s", "a", "g", "e", "_", "s", "t", "a", "r", "t">>,
     message_delta |->
         <<"m", "e", "s", "s", "a", "g", "e", "_", "d", "e", "l", "t", "a">>,
     message_stop |->
         <<"m", "e", "s", "s", "a", "g", "e", "_", "s", "t", "o", "p">>,
     delta |->
         <<"d", "e", "l", "t", "a">>,
     type |->
         <<"t", "y", "p", "e">>,
     text_delta |->
         <<"t", "e", "x", "t", "_", "d", "e", "l", "t", "a">>,
     text |->
         <<"t", "e", "x", "t">>,
     content_block |->
         <<"c", "o", "n", "t", "e", "n", "t", "_", "b", "l", "o", "c", "k">>,
     tool_use |->
         <<"t", "o", "o", "l", "_", "u", "s", "e">>,
     id |->
         <<"i", "d">>,
     name |->
         <<"n", "a", "m", "e">>,
     input_json_delta |->
         <<"i", "n", "p", "u", "t", "_", "j", "s", "o", "n", "_", "d", "e", "l", "t", "a">>,
     partial_json |->
         <<"p", "a", "r", "t", "i", "a", "l", "_", "j", "s", "o", "n">>,
     message |->
         <<"m", "e", "s", "s", "a", "g", "e">>,
     usage |->
         <<"u", "s", "a", "g", "e">>,
     input_tokens |->
         <<"i", "n", "p", "u", "t", "_", "t", "o", "k", "e", "n", "s">>,
     output_tokens |->
         <<"o", "u", "t", "p", "u", "t", "_", "t", "o", "k", "e", "n", "s">>,
     choices |->
         <<"c", "h", "o", "i", "c", "e", "s">>,
     content |->
         <<"c", "o", "n", "t", "e", "n", "t">>,
     tool_calls |->
         <<"t", "o", "o", "l", "_", "c", "a", "l", "l", "s">>,
     index |->
         <<"i", "n", "d", "e", "x">>,
     function |->
         <<"f", "u", "n", "c", "t", "i", "o", "n">>,
     arguments |->
         <<"a", "r", "g", "u", "m", "e", "n", "t", "s">>,
     prompt_tokens |->
         <<"p", "r", "o", "m", "p", "t", "_", "t", "o", "k", "e", "n", "s">>,
     completion_tokens |->
         <<"c", "o", "m", "p", "l", "e", "t", "i", "o", "n", "_", "t", "o", "k", "e", "n", "s">>,
     DONE |->
         <<"[", "D", "O", "N", "E", "]">>]

\* U+FFFD, what from_utf8_lossy puts in place of an invalid sequence
REPLACEMENT == "<fffd>"

\* the character whose UTF-8 encoding is the two bytes "C3" "A9"
E_ACUTE == "<e9>"

\* String::from_utf8_lossy on one read: bytes below 0x80 are their own
\* character, "C3" "A9" is one character, a lead byte without its
\* continuation and a continuation byte without its lead are replaced
from_utf8_lossy(bytes) ==
    LET n == Len(bytes)
        at == [i \in 1..n |->
                  IF bytes[i] = "C3"
                  THEN IF i < n /\ bytes[i + 1] = "A9" THEN E_ACUTE
                       ELSE REPLACEMENT
                  ELSE IF bytes[i] = "A9"
                       THEN IF i > 1 /\ bytes[i - 1] = "C3" THEN ""
                            ELSE REPLACEMENT
                       ELSE bytes[i]]
        IsChar(c) == c # ""
    IN  SelectSeq(at, IsChar)

\* str::strip_prefix for a prefix given as characters
strip_prefix(cs, prefix) ==
    IF Len(cs) >= Len(prefix) /\ Take(cs, Len(prefix)) = prefix
    THEN Some(Drop(cs, Len(prefix)))
    ELSE None

\* str::trim_end_matches('\r')
RECURSIVE trim_end_cr(_)
trim_end_cr(cs) ==
    IF cs # <<>> /\ cs[Len(cs)] = "\r" THEN trim_end_cr(Take(cs, Len(cs) - 1))
    ELSE cs

EventPrefix == <<"e", "v", "e", "n", "t", ":", " ">>

DataPrefix == <<"d", "a", "t", "a", ":", " ">>

TextDelta(text) == [kind |-> "TextDelta", text |-> text]

ChunkDone == [kind |-> "Done", text |-> <<>>]

\* the locals of chat_completion_stream before the first read, with the
\* chunks sent on chunk_tx, whether the call has returned, and the lines
\* taken off the buffer so far
ParserInit ==
    [buffer |-> <<>>, content |-> <<>>, tool_calls |-> <<>>,
     input_tokens |-> 0, output_tokens |-> 0, usage |-> None,
     current_event_type |-> "", sent |-> <<>>, returned |-> FALSE,
     lines |-> <<>>]

\* StreamToolCallAccumulator / ToolCallAccumulator
Accumulator(id, name, arguments) ==
    [id |-> id, name |-> name, arguments |-> arguments]

\* mutation of PushToLast: the fragment replaces what was accumulated
PushToLast_replace(tool_calls, json) ==
    IF tool_calls = <<>> THEN tool_calls
    ELSE [tool_calls EXCEPT ![Len(tool_calls)].arguments = json]

\* tool_calls.last_mut().arguments.push_str(json)
PushToLast(tool_calls, json) ==
    IF tool_calls = <<>> THEN tool_calls
    ELSE [tool_calls EXCEPT ![Len(tool_calls)].arguments = @ \o json]

\* Format A: the match on current_event_type for a parsed payload v
EventA(st, v) ==
    CASE st.current_event_type = "message_start" ->
            LET u == AndGet(Get(v, "message"), "usage")
            IN  IF u # None
                THEN [st EXCEPT !.input_tokens =
                         UnwrapOr(AsU64(AndGet(u, "input_tokens")), 0)]
                ELSE st
      [] st.current_event_type = "content_block_start" ->
            LET block == Get(v, "content_block")
            IN  IF block # None
                     /\ Str(UnwrapOr(AsStr(AndGet(block, "type")), <<>>)) = "tool_use"
                THEN [st EXCEPT !.tool_calls = Append(@,
                         Accumulator(UnwrapOr(AsStr(AndGet(block, "id")), <<>>),
                                     UnwrapOr(AsStr(AndGet(block, "name")), <<>>),
                                     <<>>))]
                ELSE st
      [] st.current_event_type = "content_block_delta" ->
            LET delta == Get(v, "delta")
                delta_type == Str(UnwrapOr(AsStr(AndGet(delta, "type")), <<>>))
                text == AsStr(AndGet(delta, "text"))
                json == AsStr(AndGet(delta, "partial_json"))
            IN  IF delta = None THEN st
                ELSE IF delta_type = "text_delta" /\ text # None
                THEN [st EXCEPT !.content = @ \o text[1],
                                !.sent = Append(@, TextDelta(text[1]))]
                ELSE IF delta_type = "input_json_delta" /\ json # None
                THEN [st EXCEPT !.tool_calls = PushToLast(@, json[1])]
                ELSE st
      [] st.current_event_type = "message_delta" ->
            LET u == Get(v, "usage")
            IN  IF u # None
                THEN [st EXCEPT !.output_tokens =
                         UnwrapOr(AsU64(AndGet(u, "output_tokens")), 0)]
                ELSE st
      [] st.current_event_type = "message_stop" ->
            [st EXCEPT !.sent = Append(@, ChunkDone)]
      [] OTHER -> st

\* mutation of SkipLine: the text received so far is dropped
SkipLine_reset(st) == [st EXCEPT !.content = <<>>]

\* the continue of the line loop: the line is dropped
SkipLine(st) == st

\* Format A: one line taken off the buffer
HandleLineA(st, line) ==
    IF line = <<>> THEN [st EXCEPT !.current_event_type = ""]
    ELSE IF strip_prefix(line, EventPrefix) # None
    THEN [st EXCEPT !.current_event_type =
             Str(Trim(strip_prefix(line, EventPrefix)[1]))]
    ELSE LET data == strip_prefix(line, DataPrefix)
         IN  IF data = None THEN SkipLine(st)
             ELSE LET v == from_str(data[1])
                  IN  IF v = None THEN SkipLine(st) ELSE EventA(st, v[1])

\* an Option<String> field of a derived Deserialize: absent, null or a string
OptionalStr(opt) == opt = None \/ opt[1].t \in {"null", "str"}

\* an Option<u64> field
OptionalU64(opt) == opt = None \/ opt[1].t \in {"null", "num"}

\* StreamToolCallDelta deserializes from v
ValidToolCallDelta(v) ==
    /\ v.t = "obj"
    /\ AsU64(Get(v, "index")) # None
    /\ OptionalStr(Get(v, "id"))
    /\ LET f == Get(v, "function")
       IN  \/ f = None
           \/ f[1].t = "null"
           \/ /\ f[1].t = "obj"
              /\ OptionalStr(Get(f[1], "name"))
              /\ OptionalStr(Get(f[1], "arguments"))

\* StreamChoice deserializes from v
ValidChoice(v) ==
    /\ v.t = "obj"
    /\ LET d == Get(v, "delta")
       IN  /\ d # None
           /\ d[1].t = "obj"
           /\ OptionalStr(Get(d[1], "content"))
           /\ LET tcs == Get(d[1], "tool_calls")
              IN  \/ tcs = None
                  \/ tcs[1].t = "null"
                  \/ /\ tcs[1].t = "arr"
                     /\ \A i \in 1..Len(tcs[1].elems) :
                            ValidToolCallDelta(tcs[1].elems[i])

\* serde_json::from_str::<StreamResponseChunk>(data) is Ok
ValidChunk(v) ==
    /\ v.t = "obj"
    /\ LET cs == Get(v, "choices")
       IN  /\ cs # None
           /\ cs[1].t = "arr"
           /\ \A i \in 1..Len(cs[1].elems) : ValidChoice(cs[1].elems[i])
    /\ LET u == Get(v, "usage")
       IN  \/ u = None
           \/ u[1].t = "null"
           \/ /\ u[1].t = "obj"
              /\ OptionalU64(Get(u[1], "prompt_tokens"))
              /\ OptionalU64(Get(u[1], "completion_tokens"))

\* while tool_calls.len() <= index { push(default) }
RECURSIVE PadTo(_, _)
PadTo(tool_calls, index) ==
    IF Len(tool_calls) <= index
    THEN PadTo(Append(tool_calls, Accumulator(<<>>, <<>>, <<>>)), index)
    ELSE tool_calls

\* Format B: one element of delta.tool_calls applied to the accumulators
ApplyToolCallDelta(tool_calls, d) ==
    LET index == AsU64(Get(d, "index"))[1]
        id == AsStr(Get(d, "id"))
        func == Get(d, "function")
        name == AsStr(AndGet(func, "name"))
        args == AsStr(AndGet(func, "arguments"))
    IN  [PadTo(tool_calls, index) EXCEPT
            ![index + 1].id = IF id # None THEN id[1] ELSE @,
            ![index + 1].name = IF name # None THEN @ \o name[1] ELSE @,
            ![index + 1].arguments = IF args # None THEN @ \o args[1] ELSE @]

RECURSIVE ApplyToolCallDeltas(_, _)
ApplyToolCallDeltas(tool_calls, ds) ==
    IF ds = <<>> THEN tool_calls
    ELSE ApplyToolCallDeltas(ApplyToolCallDelta(tool_calls, ds[1]), Tail(ds))

\* Format B: a chunk that deserialized
ChunkB(st, v) ==
    LET choices == Get(v, "choices")[1].elems
        delta == IF choices # <<>> THEN Get(choices[1], "delta") ELSE None
        text == AsStr(AndGet(delta, "content"))
        tcs == AndGet(delta, "tool_calls")
        u == Get(v, "usage")
        st1 == IF text # None /\ text[1] # <<>>
               THEN [st EXCEPT !.content = @ \o text[1],
                               !.sent = Append(@, TextDelta(text[1]))]
               ELSE st
        st2 == IF tcs # None /\ tcs[1].t = "arr"
               THEN [st1 EXCEPT !.tool_calls =
                        ApplyToolCallDeltas(@, tcs[1].elems)]
               ELSE st1
    IN  IF u # None /\ u[1].t = "obj"
        THEN [st2 EXCEPT !.usage = Some(
                 [input_tokens |->
                      UnwrapOr(AsU64(Get(u[1], "prompt_tokens")), 0),
                  output_tokens |->
                      UnwrapOr(AsU64(Get(u[1], "completion_tokens")), 0)])]
        ELSE st2

\* mutation of HandleLineB: [DONE] sends Done and the line loop goes on
HandleLineB_continue(st, line) ==
    IF line = <<>> THEN st
    ELSE LET data == strip_prefix(line, DataPrefix)
         IN  IF data = None THEN SkipLine(st)
             ELSE IF Trim(data[1]) = W.DONE
             THEN [st EXCEPT !.sent = Append(@, ChunkDone)]
             ELSE LET v == from_str(data[1])
                  IN  IF v # None /\ ValidChunk(v[1]) THEN ChunkB(st, v[1])
                      ELSE SkipLine(st)

\* Format B: one line taken off the buffer; [DONE] makes the call return
HandleLineB(st, line) ==
    IF line = <<>> THEN st
    ELSE LET data == strip_prefix(line, DataPrefix)
         IN  IF data = None THEN SkipLine(st)
             ELSE IF Trim(data[1]) = W.DONE
             THEN [st EXCEPT !.sent = Append(@, ChunkDone), !.returned = TRUE]
             ELSE LET v == from_str(data[1])
                  IN  IF v # None /\ ValidChunk(v[1]) THEN ChunkB(st, v[1])
                      ELSE SkipLine(st)

HandleLine(format, st, line) ==
    IF format = "A" THEN HandleLineA(st, line) ELSE HandleLineB(st, line)

\* position of the first "\n" of cs, 0 when there is none
FindNewline(cs) ==
    IF \E i \in 1..Len(cs) : cs[i] = "\n"
    THEN CHOOSE i \in 1..Len(cs) :
             cs[i] = "\n" /\ \A j \in 1..(i - 1) : cs[j] # "\n"
    ELSE 0

\* while let Some(newline_pos) = buffer.find('\n') { .. }
RECURSIVE DrainLines(_, _)
DrainLines(format, st) ==
    LET pos == FindNewline(st.buffer)
    IN  IF st.returned \/ pos = 0 THEN st
        ELSE LET line == trim_end_cr(Take(st.buffer, pos - 1))
             IN  DrainLines(format,
                     HandleLine(format,
                                [st EXCEPT !.buffer = Drop(st.buffer, pos),
                                           !.lines = Append(@, line)],
                                line))

\* the body of the read loop for one read of the byte stream
OnRead(format, st, bytes) ==
    DrainLines(format, [st EXCEPT !.buffer = @ \o from_utf8_lossy(bytes)])

\* the ToolCall values made of the accumulators
RECURSIVE FinalToolCalls(_)
FinalToolCalls(accs) ==
    IF accs = <<>> THEN <<>>
    ELSE <<[id |-> Str(accs[1].id), name |-> Str(accs[1].name),
            arguments |-> accs[1].arguments]>>
         \o FinalToolCalls(Tail(accs))

\* the ChatResponse returned when the stream ends (or, in Format B, at
\* [DONE])
FinalResponse(format, st) ==
    [content |-> Str(st.content),
     tool_calls |-> FinalToolCalls(st.tool_calls),
     usage |-> IF format = "B" THEN st.usage
               ELSE IF st.input_tokens > 0 \/ st.output_tokens > 0
                    THEN Some([input_tokens |-> st.input_tokens,
                               output_tokens |-> st.output_tokens])
                    ELSE None]

(***************************************************************************)
(* The byte streams fed to the parsers: frames, and their encoding on the  *)
(* wire in Format A (event/data records) and Format B (data records)       *)
(***************************************************************************)
\* the UTF-8 bytes of a text
RECURSIVE Utf8Bytes(_)
Utf8Bytes(cs) ==
    IF cs = <<>> THEN <<>>
    ELSE (IF cs[1] = E_ACUTE THEN <<"C3", "A9">> ELSE <<cs[1]>>)
         \o Utf8Bytes(Tail(cs))

\* the text of a JSON string literal for the characters cs
RECURSIVE JsonEscape(_)
JsonEscape(cs) ==
    IF cs = <<>> THEN <<>>
    ELSE (IF cs[1] \in {"\"", "\\"} THEN <<"\\", cs[1]>>
          ELSE IF cs[1] = "\t" THEN <<"\\", "t">>
          ELSE IF cs[1] = "\n" THEN <<"\\", "n">>
          ELSE <<cs[1]>>)
         \o JsonEscape(Tail(cs))

\* a JSON string literal, in UTF-8
JStr(cs) == <<"\"">> \o Utf8Bytes(JsonEscape(cs)) \o <<"\"">>

\* the decimal digits of n
RECURSIVE JNum(_)
JNum(n) == IF n < 10 THEN <<DigitChar(n)>> ELSE JNum(n \div 10) \o <<DigitChar(n % 10)>>

\* "key":value
JMember(key, value) == JStr(key) \o <<":">> \o value

RECURSIVE JoinComma(_)
JoinComma(parts) ==
    IF parts = <<>> THEN <<>>
    ELSE IF Len(parts) = 1 THEN parts[1]
    ELSE parts[1] \o <<",">> \o JoinComma(Tail(parts))

JObj(members) == <<"{">> \o JoinComma(members) \o <<"}">>

JArr(elems) == <<"[">> \o JoinComma(elems) \o <<"]">>

\* frames: what the backend streams, before its encoding
TextFrame(text) == [k |-> "text", text |-> text]

ToolStartFrame(index, id, name) ==
    [k |-> "tool_start", index |-> index, id |-> id, name |-> name]

ArgsFrame(index, json) == [k |-> "args", index |-> index, json |-> json]

UsageFrame(input, output) == [k |-> "usage", input |-> input, output |-> output]

StopFrame == [k |-> "stop"]

\* a data line whose payload does not parse
BadDataFrame(payload) == [k |-> "bad_data", payload |-> payload]

\* a line that is neither an event line nor a data line
JunkFrame(line) == [k |-> "junk", line |-> line]

\* one record of Format A: an event line, a data line, a blank line
RecordA(event, payload) ==
    EventPrefix \o event \o <<"\n">> \o DataPrefix \o payload \o <<"\n", "\n">>

\* the bytes of a frame in Format A
EncodeA(f) ==
    CASE f.k = "text" ->
            RecordA(W.event_delta,
                JObj(<<JMember(W.delta,
                    JObj(<<JMember(W.type, JStr(W.text_delta)),
                           JMember(W.text, JStr(f.text))>>))>>))
      [] f.k = "tool_start" ->
            RecordA(W.event_start,
                JObj(<<JMember(W.index, JNum(f.index)),
                       JMember(W.content_block,
                    JObj(<<JMember(W.type, JStr(W.tool_use)),
                           JMember(W.id, JStr(f.id)),
                           JMember(W.name, JStr(f.name))>>))>>))
      [] f.k = "args" ->
            RecordA(W.event_delta,
                JObj(<<JMember(W.index, JNum(f.index)),
                       JMember(W.delta,
                    JObj(<<JMember(W.type, JStr(W.input_json_delta)),
                           JMember(W.partial_json, JStr(f.json))>>))>>))
      [] f.k = "usage" ->
            RecordA(W.message_start,
                JObj(<<JMember(W.message,
                    JObj(<<JMember(W.usage,
                        JObj(<<JMember(W.input_tokens, JNum(f.input))>>))>>))>>))
            \o RecordA(W.message_delta,
                JObj(<<JMember(W.usage,
                    JObj(<<JMember(W.output_tokens, JNum(f.output))>>))>>))
      [] f.k = "stop" -> RecordA(W.message_stop, JObj(<<>>))
      [] f.k = "bad_data" -> RecordA(W.event_delta, f.payload)
      [] f.k = "junk" -> f.line \o <<"\n">>

\* one record of Format B: a data line and a blank line
RecordB(payload) == DataPrefix \o payload \o <<"\n", "\n">>

\* {"choices":[{"delta":delta}]}
ChoicesB(delta) ==
    JObj(<<JMember(W.choices, JArr(<<JObj(<<JMember(W.delta, delta)>>)>>))>>)

\* the bytes of a frame in Format B
EncodeB(f) ==
    CASE f.k = "text" ->
            RecordB(ChoicesB(JObj(<<JMember(W.content, JStr(f.text))>>)))
      [] f.k = "tool_start" ->
            RecordB(ChoicesB(JObj(<<JMember(W.tool_calls,
                JArr(<<JObj(<<JMember(W.index, JNum(f.index)),
                              JMember(W.id, JStr(f.id)),
                              JMember(W.function,
                                  JObj(<<JMember(W.name, JStr(f.name))>>))>>)>>))>>)))
      [] f.k = "args" ->
            RecordB(ChoicesB(JObj(<<JMember(W.tool_calls,
                JArr(<<JObj(<<JMember(W.index, JNum(f.index)),
                              JMember(W.function,
                                  JObj(<<JMember(W.arguments, JStr(f.json))>>))>>)>>))>>)))
      [] f.k = "usage" ->
            RecordB(JObj(<<JMember(W.choices, JArr(<<>>)),
                           JMember(W.usage,
                               JObj(<<JMember(W.prompt_tokens, JNum(f.input)),
                                      JMember(W.completion_tokens,
                                              JNum(f.output))>>))>>))
      [] f.k = "stop" -> RecordB(W.DONE)
      [] f.k = "bad_data" -> RecordB(f.payload)
      [] f.k = "junk" -> f.line \o <<"\n">>

Encode(format, f) == IF format = "A" THEN EncodeA(f) ELSE EncodeB(f)

(***************************************************************************)
(* State                                                                   *)
(***************************************************************************)
VARIABLES
    messages,        \* Agent.messages, the transcript
    max_iterations,  \* config.agent.max_iterations
    context_window,  \* Agent::context_window() of the active model
    tools,           \* names registered in Agent.tool_router
    pc,              \* position in process_message: idle, loop, llm,
                     \* tools, confirm, exec
    iterations,      \* local iterations of process_message
    request,         \* messages of the ChatRequest last sent
    response,        \* the ChatResponse being handled
    tcIdx,           \* position of the for loop over response.tool_calls
    mode,            \* caller: "tab" (event sink and confirmation receiver
                     \* attached) or "headless" (neither)
    events,          \* events sent on event_tx by this invocation
    confirmEvent,    \* the ToolConfirm event the tab has not handled yet
    pending_confirm, \* SessionTab.pending_confirm
    confirmChan,     \* decisions sent on confirm_tx and not yet received
    senderAlive,     \* confirm_tx not yet dropped
    result,          \* what the last process_message returned
    preCompact,      \* transcript handed to compact_context, until the
                     \* loop is entered
    modelCalls,      \* model calls made by this invocation
    callLog,         \* per tool call of the response: what happened to it
    stats,           \* Agent.stats, the SessionStats counters
    usageLog,        \* usage of every model call completed by this Agent
    sFormat,         \* wire format of the provider of the streamed call
    sFrames,         \* the frames the backend streams in that call
    sBytes,          \* the bytes of each of those frames on the wire
    sFrameIdx,       \* frames whose bytes have all been read
    sOff,            \* bytes read of the frame after those
    sParser,         \* locals of chat_completion_stream
    sRef,            \* the same locals had every read been one whole frame,
                     \* up to the last frame sParser has read to its end (or
                     \* has returned in)
    sPhase,          \* off, reading, returned, failed, folded
    sFwd,            \* chunks the forwarding task has taken off chunk_rx
    sCuts,           \* where reads have ended inside a frame: char, record,
                     \* prefix, payload
    rTool,           \* tool_name handed to assess_risk
    rParts,          \* the sub-commands the bash command is made of
    rSeps,           \* the && and || between them
    rArgs,           \* arguments handed to assess_risk (JSON text)
    rRisk,           \* what assess_risk returned: off, unset or a RiskLevel
    xTools,          \* names registered in the ToolRouter called
    xName,           \* name handed to ToolRouter::execute
    xArguments,      \* arguments handed to it (JSON text)
    xOutcome,        \* what the tool of that name returns when it is run
    xResult,         \* what execute returned, None before it has
    config,          \* Agent.config, the AppConfig the Agent was built from
    current_model_id, \* Agent.current_model_id
    llm,             \* Agent.llm, the model client
    switches,        \* calls of switch_model so far
    switched,        \* the last call of switch_model and how it ended
    built,           \* the parameters of the model call prepared since
    saved,           \* the SessionData handed to save_session, if any
    file,            \* the content of the session file, if written
    restored,        \* what loading the file gave: the transcript and
                     \* the stats of the new Agent, or an error
    pFormat,         \* the wire format of the stream parsed: A or B
    pFrames,         \* the frames the backend streams
    pPos,            \* frames the reads have delivered so far
    pParser,         \* the locals of chat_completion_stream
    tabs,            \* RatatuiUi.tabs: the SessionTab of each tab slot
    tasks,           \* the process_message tasks spawned, in spawn order,
                     \* each with its event and confirmation channel
    active_tab,      \* RatatuiUi.active_tab
    files,           \* the session files, by session id
    inputs,          \* user messages entered so far
    quit             \* the event loop has ended

\* the state of one streamed model call
streamVars ==
    <<sFormat, sFrames, sBytes, sFrameIdx, sOff, sParser, sRef, sPhase, sFwd,
      sCuts>>

\* the state of the Agent and of its caller
agentVars ==
    <<messages, max_iterations, context_window, tools, pc, iterations,
      request, response, tcIdx, mode, events, confirmEvent, pending_confirm,
      confirmChan, senderAlive, result, preCompact, modelCalls, callLog,
      stats, usageLog>>

\* the call of assess_risk under study
riskVars == <<rTool, rParts, rSeps, rArgs, rRisk>>

\* the state of the functions studied on their own
\* the call of ToolRouter::execute under study
routerVars == <<xTools, xName, xArguments, xOutcome, xResult>>

\* the model selection of the Agent
switchVars == <<config, current_model_id, llm, switches, switched, built>>

\* a session saved and loaded
sessionVars == <<saved, file, restored>>

\* one stream parsed, read by read
parseVars == <<pFormat, pFrames, pPos, pParser>>

\* the state of the studies added to the six above
\* the tabs of the terminal UI and their tasks
tabVars == <<tabs, tasks, active_tab, files, inputs, quit>>

extraVars == <<parseVars, tabVars>>

pureVars == <<riskVars, routerVars, switchVars, sessionVars, extraVars>>

vars == <<agentVars, streamVars, pureVars>>

\* no call of assess_risk is studied
RiskOff ==
    /\ rTool = ""
    /\ rParts = <<>>
    /\ rSeps = <<>>
    /\ rArgs = <<>>
    /\ rRisk = "off"

\* no call of ToolRouter::execute is studied
RouterOff ==
    /\ xTools = {}
    /\ xName = ""
    /\ xArguments = <<>>
    /\ xOutcome = [ok |-> TRUE, text |-> ""]
    /\ xResult = None

\* the model selection is left out: one model, never switched
SwitchOff ==
    /\ config = <<>>
    /\ current_model_id = ""
    /\ llm = <<>>
    /\ switches = 0
    /\ switched = <<>>
    /\ built = <<>>

\* no session is saved or loaded
SessionOff ==
    /\ saved = <<>>
    /\ file = <<>>
    /\ restored = <<>>

\* no stream is parsed on its own
ParseOff ==
    /\ pFormat = ""
    /\ pFrames = <<>>
    /\ pPos = 0
    /\ pParser = <<>>

\* no terminal UI is running
TabOff ==
    /\ tabs = <<>>
    /\ tasks = <<>>
    /\ active_tab = 0
    /\ files = <<>>
    /\ inputs = 0
    /\ quit = FALSE

ExtraOff == ParseOff /\ TabOff

PureOff == RiskOff /\ RouterOff /\ SwitchOff /\ SessionOff /\ ExtraOff

NoResult == [kind |-> "none", text |-> ""]

NoResponse == [content |-> "", tool_calls |-> <<>>, usage |-> None]

\* log entry of a tool call of iteration iter nothing has happened to yet
FreshCall(iter) ==
    [iter |-> iter, asked |-> FALSE, decision |-> "none",
     decisionFor |-> <<>>, started |-> 0, routed |-> 0, invoked |-> 0,
     returned |-> "none", finished |-> FALSE]

\* Agent::new, before any process_message
Init ==
    /\ messages = <<Message_system(SystemPrompt)>>
    /\ max_iterations \in 0..MaxIterCap
    /\ context_window \in ContextWindows
    /\ tools \in Routers
    /\ pc = "idle"
    /\ iterations = 0
    /\ request = <<>>
    /\ response = NoResponse
    /\ tcIdx = 0
    /\ mode = "headless"
    /\ events = <<>>
    /\ confirmEvent = None
    /\ pending_confirm = None
    /\ confirmChan = <<>>
    /\ senderAlive = FALSE
    /\ result = NoResult
    /\ preCompact = <<>>
    /\ modelCalls = 0
    /\ callLog = <<>>
    /\ stats = SessionStats_default
    /\ usageLog = <<>>
    /\ sFormat = "A"
    /\ sFrames = <<>>
    /\ sBytes = <<>>
    /\ sFrameIdx = 0
    /\ sOff = 0
    /\ sParser = ParserInit
    /\ sRef = ParserInit
    /\ sPhase = "off"
    /\ sFwd = 0
    /\ sCuts = {}
    /\ PureOff

(***************************************************************************)
(* Operations                                                              *)
(***************************************************************************)
\* process_message up to the loop: push the user message, compact
ProcessMessage(user_input, m) ==
    /\ pc = "idle"
    /\ Len(messages) <= MaxMessages
    /\ preCompact' = Append(messages, Message_user(user_input))
    /\ messages' = compact_context(preCompact', context_window)
    /\ iterations' = 0
    /\ pc' = "loop"
    /\ mode' = m
    /\ events' = <<>>
    /\ confirmEvent' = None
    /\ confirmChan' = <<>>
    /\ senderAlive' = (m = "tab")
    /\ pending_confirm' = IF senderAlive THEN pending_confirm ELSE None
    /\ result' = NoResult
    /\ request' = <<>>
    /\ response' = NoResponse
    /\ tcIdx' = 0
    /\ modelCalls' = 0
    /\ callLog' = <<>>
    /\ UNCHANGED <<max_iterations, context_window, tools, streamVars, pureVars, stats, usageLog>>

\* process_message returns: its locals are gone
Return ==
    /\ pc' = "idle"
    /\ iterations' = 0
    /\ request' = <<>>
    /\ response' = NoResponse
    /\ tcIdx' = 0
    /\ callLog' = <<>>

\* top of the loop: count the iteration, stop at the cap or send the request
\* (at most MaxRequests requests are sent in the life of the Agent)
LoopHead ==
    /\ pc = "loop"
    /\ IF CapReached(iterations + 1, max_iterations)
       THEN /\ events' = Emit(events, mode,
                              [type |-> "Done", text |-> stop_msg(max_iterations)])
            /\ result' = [kind |-> "ok", text |-> stop_msg(max_iterations)]
            /\ Return
            /\ UNCHANGED modelCalls
       ELSE /\ stats.request_count < MaxRequests
            /\ iterations' = iterations + 1
            /\ request' = messages
            /\ modelCalls' = modelCalls + 1
            /\ pc' = "llm"
            /\ UNCHANGED <<events, result, response, tcIdx, callLog>>
    /\ preCompact' = <<>>
    /\ UNCHANGED <<messages, max_iterations, context_window, tools, streamVars, pureVars, stats, usageLog,
                   mode, confirmEvent, pending_confirm, confirmChan,
                   senderAlive>>

\* what process_message does with the response of a completed model call,
\* evts being the events sent once the forwarding task has ended: the usage
\* is recorded and the response folded into the transcript
\* mutation of Fold: the final answer is returned without being pushed
Fold_unpushed(evts, content, tool_calls, usage) ==
    /\ stats' = record_usage(stats, usage)
    /\ usageLog' = Append(usageLog, usage)
    /\ IF has_tool_calls([content |-> content, tool_calls |-> tool_calls])
       THEN /\ response' = [content |-> content, tool_calls |-> tool_calls,
                            usage |-> usage]
            /\ messages' = Append(messages,
                   Message_assistant_with_tool_calls(content, tool_calls))
            /\ callLog' = [k \in 1..Len(tool_calls) |-> FreshCall(iterations)]
            /\ tcIdx' = 1
            /\ pc' = "tools"
            /\ events' = evts
            /\ UNCHANGED <<result, iterations, request>>
       ELSE /\ messages' = messages
            /\ events' = Emit(evts, mode, [type |-> "Done", text |-> content])
            /\ result' = [kind |-> "ok", text |-> content]
            /\ Return
    /\ UNCHANGED <<max_iterations, context_window, tools, pureVars,
                   mode, confirmEvent, pending_confirm, confirmChan, senderAlive,
                   preCompact, modelCalls>>

Fold(evts, content, tool_calls, usage) ==
    /\ stats' = record_usage(stats, usage)
    /\ usageLog' = Append(usageLog, usage)
    /\ IF has_tool_calls([content |-> content, tool_calls |-> tool_calls])
       THEN /\ response' = [content |-> content, tool_calls |-> tool_calls,
                            usage |-> usage]
            /\ messages' = Append(messages,
                   Message_assistant_with_tool_calls(content, tool_calls))
            /\ callLog' = [k \in 1..Len(tool_calls) |-> FreshCall(iterations)]
            /\ tcIdx' = 1
            /\ pc' = "tools"
            /\ events' = evts
            /\ UNCHANGED <<result, iterations, request>>
       ELSE /\ messages' = Append(messages, Message_assistant(content))
            /\ events' = Emit(evts, mode, [type |-> "Done", text |-> content])
            /\ result' = [kind |-> "ok", text |-> content]
            /\ Return
    /\ UNCHANGED <<max_iterations, context_window, tools, pureVars,
                   mode, confirmEvent, pending_confirm, confirmChan, senderAlive,
                   preCompact, modelCalls>>

\* the model call returns a response (responses with tool calls are explored
\* while the transcript stays within MaxMessages + 2 messages): the text
\* deltas are forwarded, then the response is folded
LlmRespond(content, tool_calls, usage) ==
    /\ pc = "llm"
    /\ sPhase = "off"
    /\ tool_calls # <<>> =>
           Len(messages) + 1 + Len(tool_calls) <= MaxMessages + 2
    /\ Fold(ForwardDeltas(events, mode, Deltas(content)),
            content, tool_calls, usage)
    /\ UNCHANGED streamVars

\* the model call fails: process_message returns the error
LlmFail ==
    /\ pc = "llm"
    /\ sPhase = "off"
    /\ result' = LlmError
    /\ Return
    /\ UNCHANGED <<messages, max_iterations, context_window, tools, streamVars, pureVars, stats, usageLog,
                   mode, events, confirmEvent,
                   pending_confirm, confirmChan, senderAlive, preCompact,
                   modelCalls>>

\* where the for loop goes after the call at tcIdx
AfterCall ==
    IF tcIdx < Len(response.tool_calls)
    THEN /\ tcIdx' = tcIdx + 1
         /\ pc' = "tools"
    ELSE /\ tcIdx' = 0
         /\ pc' = "loop"

\* a denied call: ToolEnd(success = false), the denial message, continue
Deny(evts, tc, log) ==
    /\ events' = Emit(evts, mode,
                      [type |-> "ToolEnd", call |-> <<iterations, tcIdx>>,
                       success |-> FALSE])
    /\ messages' = PushDenied(messages, tc)
    /\ callLog' = [log EXCEPT ![tcIdx].finished = TRUE]
    /\ AfterCall

\* mutation of Execute: the execution is spawned and not awaited, the loop
\* moves on to the next call
Execute_spawned(evts, tc, log) ==
    /\ events' = Emit(evts, mode,
                      [type |-> "ToolStart", call |-> <<iterations, tcIdx>>])
    /\ callLog' = [log EXCEPT ![tcIdx].started = @ + 1]
    /\ UNCHANGED messages
    /\ AfterCall

\* a call that goes ahead: ToolStart, then ToolRouter::execute is awaited
Execute(evts, tc, log) ==
    /\ events' = Emit(evts, mode,
                      [type |-> "ToolStart", call |-> <<iterations, tcIdx>>])
    /\ callLog' = [log EXCEPT ![tcIdx].started = @ + 1]
    /\ pc' = "exec"
    /\ UNCHANGED <<messages, tcIdx>>

\* the call after the decision approved: denied, or executed
Decide(evts, tc, log, approved) ==
    LET decided == [log EXCEPT
                       ![tcIdx].decision =
                           IF approved THEN "approved" ELSE "denied"]
    IN  IF Denied(approved)
        THEN Deny(evts, tc, decided)
        ELSE Execute(evts, tc, decided)

\* one tool call of the response, up to the point where it waits for a
\* decision or for the tool
HandleToolCall ==
    /\ pc = "tools"
    /\ LET tc == response.tool_calls[tcIdx]
           asked == Emit(events, mode,
                         [type |-> "ToolConfirm",
                          call |-> <<iterations, tcIdx>>])
           askedLog == [callLog EXCEPT ![tcIdx].asked = TRUE]
       IN  IF NeedsConfirm(tc)
           THEN IF mode = "tab"
                THEN /\ events' = asked
                     /\ confirmEvent' = Some(<<iterations, tcIdx>>)
                     /\ callLog' = askedLog
                     /\ pc' = "confirm"
                     /\ UNCHANGED <<messages, tcIdx>>
                ELSE /\ Decide(asked, tc, askedLog, FALSE)
                     /\ UNCHANGED confirmEvent
           ELSE /\ Execute(events, tc, callLog)
                /\ UNCHANGED confirmEvent
    /\ UNCHANGED <<max_iterations, context_window, tools, streamVars, pureVars, stats, usageLog, iterations, request,
                   response, mode, pending_confirm, confirmChan,
                   senderAlive, result, preCompact, modelCalls>>

\* mutation of ConfirmRecv: recv() does not return when the sender is gone
ConfirmRecv_blocking ==
    /\ pc = "confirm"
    /\ confirmChan # <<>>
    /\ LET tc == response.tool_calls[tcIdx]
           approved == UnwrapDecision(Recv(confirmChan))
           log == [callLog EXCEPT ![tcIdx].decisionFor = confirmChan[1].for]
       IN  /\ confirmChan' = Tail(confirmChan)
           /\ Decide(events, tc, log, approved)
    /\ UNCHANGED <<max_iterations, context_window, tools, streamVars, pureVars, stats, usageLog, iterations, request,
                   response, mode, confirmEvent, pending_confirm, senderAlive,
                   result, preCompact, modelCalls>>

\* rx.recv() returns: a decision, or None once the sender is gone
ConfirmRecv ==
    /\ pc = "confirm"
    /\ confirmChan # <<>> \/ ~senderAlive
    /\ LET tc == response.tool_calls[tcIdx]
           approved == UnwrapDecision(Recv(confirmChan))
           log == [callLog EXCEPT
                      ![tcIdx].decisionFor =
                          IF confirmChan # <<>> THEN confirmChan[1].for
                          ELSE <<>>]
       IN  /\ confirmChan' = IF confirmChan # <<>> THEN Tail(confirmChan)
                             ELSE confirmChan
           /\ Decide(events, tc, log, approved)
    /\ UNCHANGED <<max_iterations, context_window, tools, streamVars, pureVars, stats, usageLog, iterations, request,
                   response, mode, confirmEvent, pending_confirm, senderAlive,
                   result, preCompact, modelCalls>>

\* ToolRouter::execute returns: ToolEnd, the Tool message, the next call
ToolReturn(outcome) ==
    /\ pc = "exec"
    /\ LET tc == response.tool_calls[tcIdx]
           res == RouterExecute(tools, tc.name, tc.arguments, outcome)
       IN  /\ events' = Emit(events, mode,
                             [type |-> "ToolEnd",
                              call |-> <<iterations, tcIdx>>,
                              success |-> res.ok])
           /\ messages' = PushResult(messages, tc, res)
           /\ callLog' = [callLog EXCEPT
                  ![tcIdx].routed = @ + 1,
                  ![tcIdx].invoked = IF res.invoked THEN @ + 1 ELSE @,
                  ![tcIdx].returned = IF res.ok THEN "ok" ELSE "err",
                  ![tcIdx].finished = TRUE]
           /\ AfterCall
    /\ UNCHANGED <<max_iterations, context_window, tools, streamVars, pureVars, stats, usageLog, iterations, request,
                   response, mode, confirmEvent, pending_confirm, confirmChan,
                   senderAlive, result, preCompact, modelCalls>>

\* Agent::clear_history, between two process_message calls
ClearHistory ==
    /\ pc = "idle"
    /\ messages' = clear_history(messages)
    /\ UNCHANGED <<max_iterations, context_window, tools, streamVars, pureVars, stats, usageLog, pc, iterations,
                   request, response, tcIdx, mode, events, confirmEvent,
                   pending_confirm, confirmChan, senderAlive, result,
                   preCompact, modelCalls, callLog>>

(***************************************************************************)
(* The tab that started the invocation (src/ui/ratatui_ui.rs)              *)
(***************************************************************************)
\* the event loop reaches the ToolConfirm event (the events before it do
\* not touch pending_confirm)
UIHandleEvent ==
    /\ mode = "tab"
    /\ senderAlive
    /\ confirmEvent # None
    /\ confirmEvent' = None
    /\ pending_confirm' = Some(confirmEvent[1])
    /\ UNCHANGED <<messages, max_iterations, context_window, tools, streamVars, pureVars, stats, usageLog, pc,
                   iterations, request, response, tcIdx, mode, events,
                   confirmChan, senderAlive, result, preCompact, modelCalls,
                   callLog>>

\* the user presses Y (TRUE) or N (FALSE) while a confirmation is pending
UIKey(yes) ==
    /\ mode = "tab"
    /\ senderAlive
    /\ pending_confirm # None
    /\ pending_confirm' = None
    /\ confirmChan' = Append(confirmChan,
                             [val |-> yes, for |-> pending_confirm[1]])
    /\ UNCHANGED <<messages, max_iterations, context_window, tools, streamVars, pureVars, stats, usageLog, pc,
                   iterations, request, response, tcIdx, mode, events, confirmEvent,
                   senderAlive, result, preCompact, modelCalls, callLog>>

\* the tab is closed while its task runs: confirm_tx is dropped
CloseTab ==
    /\ mode = "tab"
    /\ senderAlive
    /\ pc # "idle"
    /\ senderAlive' = FALSE
    /\ UNCHANGED <<messages, max_iterations, context_window, tools, streamVars, pureVars, stats, usageLog, pc,
                   iterations, request, response, tcIdx, mode, events, confirmEvent,
                   pending_confirm, confirmChan, result, preCompact,
                   modelCalls, callLog>>

Next ==
    \/ \E u \in UserInputs, m \in {"tab", "headless"} : ProcessMessage(u, m)
    \/ LoopHead
    \/ \E r \in Responses(MaxCalls) :
           LlmRespond(r.content, r.tool_calls, r.usage)
    \/ LlmFail
    \/ HandleToolCall
    \/ ConfirmRecv
    \/ \E o \in ToolOutcomes : ToolReturn(o)
    \/ ClearHistory
    \/ UIHandleEvent
    \/ \E yes \in BOOLEAN : UIKey(yes)
    \/ CloseTab

Spec == Init /\ [][Next]_vars

(***************************************************************************)
(* One streamed model call: the reads of chat_completion_stream            *)
(* (src/llm/anthropic.rs, src/llm/openai_compatible.rs), the forwarding    *)
(* task of process_message and the fold of the response (src/agent.rs)     *)
(***************************************************************************)
ID_call_a == <<"c", "a", "l", "l", "_", "a">>

ID_call_b == <<"c", "a", "l", "l", "_", "b">>

NAME_read_file == <<"r", "e", "a", "d", "_", "f", "i", "l", "e">>

\* two text fragments, the second starting with a two-byte character
S_text ==
    <<UsageFrame(3, 2), TextFrame(<<"H">>), TextFrame(<<E_ACUTE, "!">>),
      StopFrame>>

\* two tool calls, the arguments of the first in three fragments
S_tool ==
    <<ToolStartFrame(0, ID_call_a, NAME_read_file),
      ArgsFrame(0, <<"{", "\"", "a", "\"", ":">>),
      ArgsFrame(0, <<"1", ",", "\"", "b", "\"", ":">>),
      ArgsFrame(0, <<"2", "}">>),
      ToolStartFrame(1, ID_call_b, NAME_read_file),
      ArgsFrame(1, <<"{", "}">>),
      UsageFrame(3, 2), StopFrame>>

\* text and a tool call, with a line that is no record and a data line
\* whose payload does not parse
S_mixed ==
    <<TextFrame(<<"H">>), JunkFrame(<<":", "k">>),
      ToolStartFrame(0, ID_call_a, NAME_read_file),
      BadDataFrame(<<"{", "x">>), ArgsFrame(0, <<"{", "}">>),
      TextFrame(<<"i">>), StopFrame>>

\* no text and no tool call
S_idle == <<UsageFrame(3, 2), StopFrame>>

\* an empty text fragment, and no stop frame before the stream ends
S_nostop == <<TextFrame(<<>>), TextFrame(<<"H">>)>>

\* the frame sequences the backend streams
StreamInputs == {<<>>, S_text, S_tool, S_mixed, S_idle, S_nostop}

\* the bytes of the k-th frame of the stream
FrameBytes(k) == sBytes[k]

\* the byte at position q of a frame, the position before the first byte
\* counting as the end of a line
At(bytes, q) ==
    IF q = 0 THEN "\n" ELSE IF q < 0 THEN "" ELSE bytes[q]

\* where a read ends that stops after p > 0 bytes of a frame: inside a
\* two-byte character, between two lines of the frame, inside the "data:"
\* or "event:" prefix of a line, inside the payload of a data line, or at
\* none of these
CutKind(bytes, p) ==
    IF bytes[p] = "C3" THEN "char"
    ELSE IF bytes[p] = "\n" THEN "record"
    ELSE IF bytes[p] = ":"
            /\ (At(bytes, p - 5) = "\n" \/ At(bytes, p - 6) = "\n")
    THEN "prefix"
    ELSE IF bytes[p] = "{" /\ At(bytes, p - 1) = " " THEN "payload"
    ELSE "none"

\* the reads explored end at a frame end or at one of these offsets
CutOffsets(bytes) ==
    {p \in 1..(Len(bytes) - 1) : CutKind(bytes, p) # "none"}

\* the bytes of the frames a..b
RECURSIVE WholeFrames(_, _)
WholeFrames(a, b) ==
    IF a > b THEN <<>> ELSE FrameBytes(a) \o WholeFrames(a + 1, b)

\* the bytes of a read that ends after p bytes of frame j + 1
ReadBytes(j, p) ==
    IF j = sFrameIdx THEN SubSeq(FrameBytes(j + 1), sOff + 1, p)
    ELSE Drop(FrameBytes(sFrameIdx + 1), sOff)
         \o WholeFrames(sFrameIdx + 2, j)
         \o (IF p > 0 THEN Take(FrameBytes(j + 1), p) ELSE <<>>)

\* the frames a..b read one frame per read
RECURSIVE RefReads(_, _, _)
RefReads(st, a, b) ==
    IF a > b \/ st.returned THEN st
    ELSE RefReads(OnRead(sFormat, st, FrameBytes(a)), a + 1, b)

\* the send of StreamChunk::Done after the read loop
SendDone(st) ==
    IF st.returned THEN st
    ELSE [st EXCEPT !.sent = Append(@, ChunkDone), !.returned = TRUE]

\* process_message has sent the first request of a user message and the
\* provider has opened the byte stream
InitStream ==
    /\ messages = <<Message_system(SystemPrompt), Message_user("hi")>>
    /\ max_iterations \in 1..MaxIterCap
    /\ context_window = 30
    /\ tools = {"read_file", "bash"}
    /\ pc = "llm"
    /\ iterations = 1
    /\ request = messages
    /\ response = NoResponse
    /\ tcIdx = 0
    /\ mode \in {"tab", "headless"}
    /\ events = <<>>
    /\ confirmEvent = None
    /\ pending_confirm = None
    /\ confirmChan = <<>>
    /\ senderAlive = (mode = "tab")
    /\ result = NoResult
    /\ preCompact = <<>>
    /\ modelCalls = 1
    /\ callLog = <<>>
    /\ stats = SessionStats_default
    /\ usageLog = <<>>
    /\ sFormat \in {"A", "B"}
    /\ sFrames \in StreamInputs
    /\ sBytes = [k \in 1..Len(sFrames) |-> Encode(sFormat, sFrames[k])]
    /\ sFrameIdx = 0
    /\ sOff = 0
    /\ sParser = ParserInit
    /\ sRef = ParserInit
    /\ sPhase = "reading"
    /\ sFwd = 0
    /\ sCuts = {}
    /\ PureOff

\* byte_stream.next() yields a read that ends after p bytes of frame j + 1:
\* the body of the read loop
StreamRead(j, p) ==
    /\ pc = "llm"
    /\ sPhase = "reading"
    /\ j \in sFrameIdx..Len(sFrames)
    /\ j <= sFrameIdx + MaxSpan
    /\ j = sFrameIdx => p > sOff
    /\ p > 0 => j < Len(sFrames) /\ p \in CutOffsets(FrameBytes(j + 1))
    /\ LET st == OnRead(sFormat, sParser, ReadBytes(j, p))
       IN  /\ sParser' = st
           /\ sPhase' = IF st.returned THEN "returned" ELSE "reading"
           /\ sRef' = RefReads(sRef, sFrameIdx + 1,
                               IF st.returned /\ p > 0 THEN j + 1 ELSE j)
    /\ sFrameIdx' = j
    /\ sOff' = p
    /\ sCuts' = IF p > 0 THEN sCuts \cup {CutKind(FrameBytes(j + 1), p)}
                ELSE sCuts
    /\ UNCHANGED <<sFormat, sFrames, sBytes, sFwd>>
    /\ UNCHANGED <<agentVars, pureVars>>

\* byte_stream.next() yields None: Done is sent and the response returned
StreamEnd ==
    /\ pc = "llm"
    /\ sPhase = "reading"
    /\ sFrameIdx = Len(sFrames)
    /\ sOff = 0
    /\ sParser' = SendDone(sParser)
    /\ sRef' = SendDone(sRef)
    /\ sPhase' = "returned"
    /\ UNCHANGED <<sFormat, sFrames, sBytes, sFrameIdx, sOff, sFwd, sCuts>>
    /\ UNCHANGED <<agentVars, pureVars>>

\* mutation of StreamError: what was received so far is kept as the answer
StreamError_partial ==
    /\ pc = "llm"
    /\ sPhase = "reading"
    /\ messages' = Append(messages, Message_assistant(Str(sParser.content)))
    /\ result' = [kind |-> "ok", text |-> Str(sParser.content)]
    /\ Return
    /\ sPhase' = "failed"
    /\ UNCHANGED <<sFormat, sFrames, sBytes, sFrameIdx, sOff, sParser, sRef, sFwd,
                   sCuts>>
    /\ UNCHANGED <<max_iterations, context_window, tools, pureVars, stats,
                   usageLog, mode, events, confirmEvent, pending_confirm,
                   confirmChan, senderAlive, preCompact, modelCalls>>

\* byte_stream.next() yields an error: chat_completion_stream returns it and
\* so does process_message, without awaiting the forwarding task
StreamError ==
    /\ pc = "llm"
    /\ sPhase = "reading"
    /\ result' = LlmError
    /\ Return
    /\ sPhase' = "failed"
    /\ UNCHANGED <<sFormat, sFrames, sBytes, sFrameIdx, sOff, sParser, sRef, sFwd,
                   sCuts>>
    /\ UNCHANGED <<messages, max_iterations, context_window, tools, pureVars,
                   stats, usageLog, mode, events, confirmEvent, pending_confirm,
                   confirmChan, senderAlive, preCompact, modelCalls>>

\* the forwarding task takes one chunk off chunk_rx: a TextDelta becomes a
\* StreamDelta event
Forward ==
    /\ sPhase \in {"reading", "returned", "failed"}
    /\ sFwd < Len(sParser.sent)
    /\ LET chunk == sParser.sent[sFwd + 1]
       IN  events' = IF chunk.kind = "TextDelta"
                     THEN Emit(events, mode,
                               [type |-> "StreamDelta", text |-> Str(chunk.text)])
                     ELSE events
    /\ sFwd' = sFwd + 1
    /\ UNCHANGED <<sFormat, sFrames, sBytes, sFrameIdx, sOff, sParser, sRef, sPhase,
                   sCuts>>
    /\ UNCHANGED <<messages, max_iterations, context_window, tools, pureVars,
                   pc, iterations, request, response, tcIdx, mode, confirmEvent,
                   pending_confirm, confirmChan, senderAlive, result,
                   preCompact, modelCalls, callLog, stats, usageLog>>

\* mutation of StreamFold: the forwarding task is not awaited
StreamFold_unawaited ==
    /\ pc = "llm"
    /\ sPhase = "returned"
    /\ LET r == FinalResponse(sFormat, sParser)
       IN  Fold(events, r.content, r.tool_calls, r.usage)
    /\ sPhase' = "folded"
    /\ UNCHANGED <<sFormat, sFrames, sBytes, sFrameIdx, sOff, sParser, sRef, sFwd,
                   sCuts>>

\* forward_handle.await has returned (the call has returned and the task has
\* taken every chunk): the usage is recorded and the response folded
StreamFold ==
    /\ pc = "llm"
    /\ sPhase = "returned"
    /\ sFwd = Len(sParser.sent)
    /\ LET r == FinalResponse(sFormat, sParser)
       IN  Fold(events, r.content, r.tool_calls, r.usage)
    /\ sPhase' = "folded"
    /\ UNCHANGED <<sFormat, sFrames, sBytes, sFrameIdx, sOff, sParser, sRef, sFwd,
                   sCuts>>

NextStream ==
    \/ \E j \in sFrameIdx..Len(sFrames) :
           \E p \in {0} \cup (IF j < Len(sFrames) /\ j <= sFrameIdx + MaxSpan
                              THEN CutOffsets(FrameBytes(j + 1)) ELSE {}) :
               StreamRead(j, p)
    \/ StreamEnd
    \/ StreamError
    \/ Forward
    \/ StreamFold
    \/ LoopHead
    \/ HandleToolCall
    \/ \E o \in ToolOutcomes : ToolReturn(o)

SpecStream == InitStream /\ [][NextStream]_vars

(***************************************************************************)
(* Properties                                                              *)
(***************************************************************************)
\* ids of the tool calls of message m, in order
CallIds(m) == [k \in 1..Len(m.tool_calls) |-> m.tool_calls[k].id]

\* every Assistant message of t with N tool calls is followed by exactly N
\* Tool messages carrying the ids of those calls in order
Paired(t) ==
    \A i \in 1..Len(t) :
        t[i].role = "Assistant" =>
            LET n == Len(t[i].tool_calls)
            IN  /\ i + n <= Len(t)
                /\ \A k \in 1..n :
                       /\ t[i + k].role = "Tool"
                       /\ t[i + k].tool_call_id = <<CallIds(t[i])[k]>>
                /\ i + n + 1 <= Len(t) => t[i + n + 1].role # "Tool"

\* C1: in every transcript snapshot sent to the model, and in the
\* transcript whenever process_message has returned, every Assistant message
\* with N tool calls is followed by exactly N Tool messages with the ids of
\* those calls in the same order, whether the calls were executed, failed or
\* were denied.
C1_ToolResultsPaired ==
    /\ pc = "llm" => Paired(request)
    /\ pc = "idle" => Paired(messages)

\* C1 witness: a snapshot is sent that holds a response with two calls, one
\* of them denied and the other executed.
C1_Witness ==
    /\ pc = "llm"
    /\ \E i \in 1..Len(request) :
           /\ Len(request[i].tool_calls) = 2
           /\ \E a, b \in {1, 2} :
                  /\ request[i + a].content = "Tool call 'bash' was denied by the user."
                  /\ request[i + b].content = "fn main() { println!(1); }"

\* the call at position k of the response has been handled by the for loop
Handled(k) == pc \in {"loop", "llm"} \/ k < tcIdx

IsDangerous(tc) == assess_risk(tc.name, tc.arguments) = "Dangerous"

\* C2: a Dangerous call reaches ToolRouter.execute only after a 'true'
\* decision was received that answers the confirmation request of that very
\* call; an approved call is executed exactly once; Safe and Moderate calls
\* are executed (once) with no confirmation request.
C2_DangerousNeedsApproval ==
    \A k \in 1..Len(callLog) :
        LET tc == response.tool_calls[k]
            e == callLog[k]
        IN  /\ e.routed <= 1
            /\ (e.decision = "approved" /\ Handled(k)) => e.routed = 1
            /\ IF IsDangerous(tc)
               THEN e.routed > 0 =>
                        (e.asked /\ e.decision = "approved"
                           /\ e.decisionFor = <<e.iter, k>>)
               ELSE /\ ~e.asked
                    /\ e.decision = "none"
                    /\ Handled(k) => e.routed = 1

\* C2 witness: a Dangerous call was approved and executed, next to a Safe
\* call executed without confirmation.
C2_Witness ==
    \E k, j \in 1..Len(callLog) :
        /\ IsDangerous(response.tool_calls[k])
        /\ callLog[k].decision = "approved"
        /\ callLog[k].invoked = 1
        /\ ~IsDangerous(response.tool_calls[j])
        /\ callLog[j].routed = 1

\* C3: when a Dangerous call is denied, neither the router nor the tool is
\* invoked for it, a Tool message with the denial text and the call's id is
\* appended, nothing is returned, and control goes to the next call of the
\* response or, after the last call, back to the top of the loop.
C3_DenialContinues ==
    [][\A k \in 1..Len(callLog') :
          /\ callLog'[k].decision = "denied" =>
                 (callLog'[k].routed = 0 /\ callLog'[k].invoked = 0)
          /\ (k <= Len(callLog) /\ callLog[k].decision = "none"
                /\ callLog'[k].decision = "denied") =>
                 /\ messages' = Append(messages,
                        [role |-> "Tool",
                         content |-> "Tool call '" \o response.tool_calls[k].name
                                       \o "' was denied by the user.",
                         tool_calls |-> <<>>,
                         tool_call_id |-> <<response.tool_calls[k].id>>])
                 /\ result' = result
                 /\ pc' = IF k < Len(response.tool_calls) THEN "tools" ELSE "loop"
                 /\ k < Len(response.tool_calls) => tcIdx' = k + 1]_vars

\* C3 witness: the user answered no to the last call of a response, and the
\* next model call has been made.
C3_Witness ==
    /\ pc = "llm"
    /\ modelCalls = 2
    /\ Len(callLog) >= 1
    /\ callLog[Len(callLog)].decision = "denied"
    /\ callLog[Len(callLog)].decisionFor # <<>>

\* C4: the confirmation gate fails safe: with no confirmation receiver, and
\* when recv finds the channel closed with no decision in it, a Dangerous
\* call is denied and neither the router nor the tool is invoked for it.
C4_FailSafe ==
    \A k \in 1..Len(callLog) :
        LET tc == response.tool_calls[k]
            e == callLog[k]
        IN  /\ (e.asked /\ e.decision # "none" /\ e.decisionFor = <<>>) =>
                   (e.decision = "denied" /\ e.routed = 0 /\ e.invoked = 0)
            /\ (mode = "headless" /\ IsDangerous(tc) /\ Handled(k)) =>
                   (e.decision = "denied" /\ e.routed = 0 /\ e.invoked = 0)

\* C4 witness: the tab was closed while a confirmation was awaited and the
\* call was denied without a decision.
C4_Witness ==
    /\ mode = "tab"
    /\ ~senderAlive
    /\ \E k \in 1..Len(callLog) :
           /\ callLog[k].asked
           /\ callLog[k].decision = "denied"
           /\ callLog[k].decisionFor = <<>>

\* C5: with iteration cap N (N = 0 included) an invocation never makes more
\* than N model calls, and one that ends at the cap (every response asked
\* for a tool call) has made exactly N model calls and returns Ok with
\* "[Agent stopped: reached maximum of N iterations]".
C5_IterationCap ==
    /\ modelCalls <= max_iterations
    /\ pc \in {"loop", "llm", "tools", "confirm"} => modelCalls = iterations
    /\ (pc = "idle" /\ result.kind = "ok" /\ result.text \notin ResponseContents) =>
           /\ modelCalls = max_iterations
           /\ result.text =
                  IF max_iterations = 0
                  THEN "[Agent stopped: reached maximum of 0 iterations]"
                  ELSE IF max_iterations = 1
                       THEN "[Agent stopped: reached maximum of 1 iterations]"
                       ELSE IF max_iterations = 2
                            THEN "[Agent stopped: reached maximum of 2 iterations]"
                            ELSE stop_msg(max_iterations)

\* C5 witness: with cap 2 the invocation stopped at the cap after two model
\* calls.
C5_Witness ==
    /\ pc = "idle"
    /\ max_iterations = 2
    /\ modelCalls = 2
    /\ result = [kind |-> "ok",
                 text |-> "[Agent stopped: reached maximum of 2 iterations]"]

\* C6: after any sequence of process_message (with its compaction) and
\* clear_history the transcript is non-empty and its first message is the
\* original System message.
C6_SystemFirst ==
    /\ Len(messages) >= 1
    /\ messages[1] = [role |-> "System", content |-> SystemPrompt,
                      tool_calls |-> <<>>, tool_call_id |-> <<>>]
    /\ pc = "llm" => (request # <<>> /\ request[1] = messages[1])

\* C6 witness: compaction has just removed messages.
C6_Witness ==
    /\ pc = "loop"
    /\ preCompact # <<>>
    /\ Len(messages) < Len(preCompact)

\* t with the j messages after the first removed
DropFront(t, j) == <<t[1]>> \o SubSeq(t, 2 + j, Len(t))

\* the estimate of t is at most 85% of the context window
UnderThreshold(t) == estimate_context_tokens(t) * 100 <= 85 * context_window

\* C7: compact_context leaves the transcript unchanged when its estimate is
\* at most 85% of the context window; otherwise the result is message 0
\* followed by a suffix of the rest, unaltered and in order, where the
\* number of messages removed is the least that brings the estimate to the
\* threshold or leaves only 2 messages.
C7_CompactionFifo ==
    (pc = "loop" /\ preCompact # <<>>) =>
        /\ UnderThreshold(preCompact) => messages = preCompact
        /\ \E j \in 0..(Len(preCompact) - 2) :
               /\ messages = DropFront(preCompact, j)
               /\ UnderThreshold(messages) \/ Len(messages) <= 2
               /\ \A i \in 0..(j - 1) :
                      /\ ~UnderThreshold(DropFront(preCompact, i))
                      /\ Len(DropFront(preCompact, i)) > 2

\* C7 witness: compaction removed two or more messages and stopped with more
\* than two left.
C7_Witness ==
    /\ pc = "loop"
    /\ preCompact # <<>>
    /\ Len(preCompact) - Len(messages) >= 2
    /\ Len(messages) > 2

\* C8: compaction is idempotent: compacting a compacted transcript changes
\* nothing, for every transcript the agent holds between two operations and
\* for the transcript just compacted by process_message.
C8_CompactionIdempotent ==
    /\ pc = "idle" =>
           LET once == compact_context(messages, context_window)
           IN  compact_context(once, context_window) = once
    /\ (pc = "loop" /\ preCompact # <<>>) =>
           compact_context(messages, context_window) = messages

\* C8 witness: a transcript from which compaction removes two or more
\* messages.
C8_Witness ==
    /\ pc = "idle"
    /\ Len(messages) - Len(compact_context(messages, context_window)) >= 2

\* C9 as claimed: every snapshot sent to the model has an estimate at most
\* 85% of the context window or consists of only 2 messages.
C9_EverySnapshotCompacted ==
    pc = "llm" => (UnderThreshold(request) \/ Len(request) <= 2)

\* the nearest Assistant message before position i of t, 0 if there is none
PrecedingAssistant(t, i) ==
    IF \E j \in 1..(i - 1) : t[j].role = "Assistant"
    THEN CHOOSE j \in 1..(i - 1) :
             /\ t[j].role = "Assistant"
             /\ \A l \in (j + 1)..(i - 1) : t[l].role # "Assistant"
    ELSE 0

\* C10 as claimed: in every snapshot sent to the model each Tool message
\* carries the id of a tool call of the nearest preceding Assistant message.
C10_ToolMessagesReferenceCalls ==
    pc = "llm" =>
        \A i \in 1..Len(request) :
            request[i].role = "Tool" =>
                /\ PrecedingAssistant(request, i) # 0
                /\ \E k \in 1..Len(request[PrecedingAssistant(request, i)].tool_calls) :
                       request[i].tool_call_id =
                           <<request[PrecedingAssistant(request, i)].tool_calls[k].id>>

\* the texts ToolRouter::execute may fail with for a call
RouterErrorTexts(tc) ==
    {"Unknown tool: " \o tc.name,
     "Invalid JSON arguments for tool '" \o tc.name \o "': " \o Str(tc.arguments)}
        \cup {o.text : o \in {x \in ToolOutcomes : ~x.ok}}

\* C11: a failure of ToolRouter::execute (unknown tool, unparseable
\* arguments, an error of the tool) is not fatal: the step in which the
\* router fails appends a Tool message with the call's id and the text
\* "Error: ..." , emits ToolEnd with success = false, returns nothing, and
\* goes on to the next call of the response or, after the last call, back to
\* the top of the loop; a call to an unregistered tool or with arguments that
\* are not JSON always fails this way.
C11_ToolFailureNotFatal ==
    [][/\ (pc = "exec" /\ pc' # "exec") =>
             LET tc == response.tool_calls[tcIdx]
             IN  (tc.name \notin tools \/ ~JsonParses(tc.arguments)) =>
                     /\ callLog'[tcIdx].returned = "err"
                     /\ callLog'[tcIdx].invoked = 0
       /\ \A k \in 1..Len(callLog') :
             (k <= Len(callLog) /\ callLog[k].returned = "none"
                /\ callLog'[k].returned = "err") =>
                 /\ \E t \in RouterErrorTexts(response.tool_calls[k]) :
                        messages' = Append(messages,
                            [role |-> "Tool",
                             content |-> "Error: " \o t,
                             tool_calls |-> <<>>,
                             tool_call_id |-> <<response.tool_calls[k].id>>])
                 /\ mode = "tab" =>
                        events' = Append(events,
                            [type |-> "ToolEnd", call |-> <<iterations, k>>,
                             success |-> FALSE])
                 /\ result' = result
                 /\ pc' = IF k < Len(response.tool_calls) THEN "tools" ELSE "loop"
                 /\ k < Len(response.tool_calls) => tcIdx' = k + 1]_vars

\* C11 witness: both calls of a response failed in the router, one for an
\* unregistered tool and one for arguments that are not JSON, and the next
\* model call has been made.
C11_Witness ==
    /\ pc = "llm"
    /\ modelCalls = 2
    /\ Len(callLog) = 2
    /\ \A k \in 1..2 : callLog[k].returned = "err" /\ callLog[k].invoked = 0
    /\ \E k \in 1..2 : \E i \in 1..Len(messages) :
           /\ messages[i].role = "Assistant"
           /\ Len(messages[i].tool_calls) = 2
           /\ messages[i].tool_calls[k].name \notin tools
           /\ ~JsonParses(messages[i].tool_calls[3 - k].arguments)

\* C12: process_message returns an error if and only if a model call failed:
\* the only step that returns Err is the one in which the model call fails
\* (no message is appended by it); the cap stop and the final answer return
\* Ok, and no step of the tool loop (execution error, denial) returns.
C12_ErrorIffModelCallFailed ==
    [][/\ (result' # result /\ result' # NoResult) =>
             (pc # "idle" /\ pc' = "idle")
       /\ (pc # "idle" /\ pc' = "idle") =>
             /\ result'.kind \in {"ok", "err"}
             /\ result'.kind = "err" <=> (pc = "llm" /\ messages' = messages)
       /\ pc \in {"tools", "confirm", "exec"} =>
             (result' = result /\ pc' # "idle")]_vars

\* C12 witness: an invocation in which a tool failed and a call was denied
\* has returned Ok at the iteration cap.
C12_Witness ==
    /\ pc = "idle"
    /\ result = [kind |-> "ok", text |-> stop_msg(max_iterations)]
    /\ \E i, j \in 1..Len(messages) :
           /\ messages[i].role = "Tool"
           /\ messages[i].content = "Error: No such file"
           /\ messages[j].role = "Tool"
           /\ messages[j].content = deny_msg("bash")

\* C13: when the iteration cap stops the loop, the stop message returned to
\* the caller is the last message of the transcript.
C13_StopMessageInTranscript ==
    [][(pc = "loop" /\ pc' = "idle") =>
          /\ result' = [kind |-> "ok", text |-> stop_msg(max_iterations)]
          /\ messages'[Len(messages')].role = "Assistant"
          /\ messages'[Len(messages')].content = result'.text]_vars

\* tokens a usage adds to a total
UsageInput(u) == IF u = None THEN 0 ELSE u[1].input_tokens

UsageOutput(u) == IF u = None THEN 0 ELSE u[1].output_tokens

RECURSIVE SumInput(_)
SumInput(log) == IF log = <<>> THEN 0 ELSE UsageInput(log[1]) + SumInput(Tail(log))

RECURSIVE SumOutput(_)
SumOutput(log) ==
    IF log = <<>> THEN 0 ELSE UsageOutput(log[1]) + SumOutput(Tail(log))

\* C14: the SessionStats counters never decrease; only a model call that
\* completes changes them: request_count grows by exactly 1, with or without
\* usage in the response, and the token totals by exactly the usage of that
\* response; a model call that fails leaves them unchanged.
C14_StatsMonotonic ==
    [][/\ stats'.request_count >= stats.request_count
       /\ stats'.total_input_tokens >= stats.total_input_tokens
       /\ stats'.total_output_tokens >= stats.total_output_tokens
       /\ stats' # stats => (pc = "llm" /\ messages' # messages)
       /\ (pc = "llm" /\ pc' # "llm") =>
             IF messages' = messages
             THEN stats' = stats /\ usageLog' = usageLog
             ELSE LET u == usageLog'[Len(usageLog')]
                  IN  /\ Len(usageLog') = Len(usageLog) + 1
                      /\ pc' = "tools" => response'.usage = u
                      /\ stats'.request_count = stats.request_count + 1
                      /\ stats'.total_input_tokens =
                             stats.total_input_tokens + UsageInput(u)
                      /\ stats'.total_output_tokens =
                             stats.total_output_tokens + UsageOutput(u)
       /\ stats'.request_count = Len(usageLog')
       /\ stats'.total_input_tokens = SumInput(usageLog')
       /\ stats'.total_output_tokens = SumOutput(usageLog')]_vars

\* C14 witness: two model calls have completed, one with usage and one
\* without.
C14_Witness ==
    /\ pc = "idle"
    /\ result.kind = "ok"
    /\ stats = [total_input_tokens |-> 3, total_output_tokens |-> 2,
                request_count |-> 2]
    /\ usageLog[2] = None

\* place of a tool event within the handling of one call
EventRank(type) ==
    CASE type = "ToolConfirm" -> 1
      [] type = "ToolStart" -> 2
      [] type = "ToolEnd" -> 3

IsToolEvent(e) == e.type \in {"ToolConfirm", "ToolStart", "ToolEnd"}

\* event a comes strictly before event b in (iteration, call, rank) order
EventBefore(a, b) ==
    \/ a.call[1] < b.call[1]
    \/ a.call[1] = b.call[1] /\ a.call[2] < b.call[2]
    \/ a.call = b.call /\ EventRank(a.type) < EventRank(b.type)

\* number of calls of the response whose Tool message has been appended
FinishedCalls == Cardinality({k \in 1..Len(callLog) : callLog[k].finished})

\* C15: the tool calls of a response are handled one at a time in request
\* order: a call is asked about or started only after the Tool message of
\* the call before it has been appended, the Tool messages follow the
\* Assistant message in request order, at most one execution is in progress
\* (exactly while the router is awaited), and the events of a call are sent
\* in the order ToolConfirm, ToolStart, ToolEnd, before any event of a later
\* call.
C15_SequentialToolCalls ==
    /\ \A k \in 2..Len(callLog) :
           (callLog[k].asked \/ callLog[k].started > 0 \/ callLog[k].finished)
               => callLog[k - 1].finished
    /\ \A k \in 1..Len(callLog) : callLog[k].started <= 1
    /\ LET running == {k \in 1..Len(callLog) :
                          callLog[k].started > 0 /\ ~callLog[k].finished}
       IN  IF pc = "exec" THEN running = {tcIdx} ELSE running = {}
    /\ pc \in {"tools", "confirm", "exec"} =>
           LET n == FinishedCalls
               a == Len(messages) - n
           IN  /\ a >= 1
               /\ messages[a].role = "Assistant"
               /\ messages[a].tool_calls = response.tool_calls
               /\ \A j \in 1..n :
                      /\ callLog[j].finished
                      /\ messages[a + j].role = "Tool"
                      /\ messages[a + j].tool_call_id =
                             <<response.tool_calls[j].id>>
    /\ mode = "tab" =>
           \A i, j \in 1..Len(events) :
               (i < j /\ IsToolEvent(events[i]) /\ IsToolEvent(events[j]))
                   => EventBefore(events[i], events[j])

\* C15 witness: the first call of a response has its Tool message, the
\* second, a Dangerous one, has been approved and is being executed.
C15_Witness ==
    /\ pc = "exec"
    /\ mode = "tab"
    /\ tcIdx = 2
    /\ callLog[1].finished
    /\ callLog[1].started = 1
    /\ callLog[2].decision = "approved"
    /\ callLog[2].started = 1

(***************************************************************************)
(* Streaming                                                               *)
(***************************************************************************)
\* the texts of the StreamDelta events of evts, concatenated in order
RECURSIVE DeltaText(_)
DeltaText(evts) ==
    IF evts = <<>> THEN ""
    ELSE (IF evts[1].type = "StreamDelta" THEN evts[1].text ELSE "")
         \o DeltaText(Tail(evts))

\* the texts of the TextDelta chunks of sent, concatenated in order
RECURSIVE ChunkText(_)
ChunkText(sent) ==
    IF sent = <<>> THEN ""
    ELSE (IF sent[1].kind = "TextDelta" THEN Str(sent[1].text) ELSE "")
         \o ChunkText(Tail(sent))

\* the events made from a response: of its tool calls, and the final Done
FromResponse(evt) == evt.type \in {"ToolConfirm", "ToolStart", "ToolEnd", "Done"}

\* C16: once the response of a streamed model call is folded, the text
\* deltas sent for the call, concatenated in order, are the content of the
\* Assistant message folded into the transcript; with an event sink attached
\* the same holds of the StreamDelta events, and every one of them is on the
\* event channel before every ToolConfirm, ToolStart, ToolEnd and Done event
C16_DeltasMatchResponse ==
    sPhase = "folded" =>
        /\ messages[3].role = "Assistant"
        /\ ChunkText(sParser.sent) = messages[3].content
        /\ mode = "tab" =>
               /\ DeltaText(events) = messages[3].content
               /\ \A a, b \in 1..Len(events) :
                      events[a].type = "StreamDelta" /\ FromResponse(events[b])
                          => a < b

\* two deltas were delivered for a response with a tool call, and the call
\* has run
C16_Witness ==
    /\ sPhase = "folded"
    /\ mode = "tab"
    /\ DeltaText(events) = "Hi"
    /\ messages[3].content = "Hi"
    /\ \E a, b \in 1..Len(events) :
           /\ a < b
           /\ events[a].type = "StreamDelta"
           /\ events[b].type = "StreamDelta"
    /\ \E b \in 1..Len(events) : events[b].type = "ToolEnd"

\* the text fragments of a frame sequence, concatenated in arrival order
RECURSIVE TextOf(_)
TextOf(frames) ==
    IF frames = <<>> THEN <<>>
    ELSE (IF frames[1].k = "text" THEN frames[1].text ELSE <<>>)
         \o TextOf(Tail(frames))

\* the argument fragments of the call with this index, concatenated in
\* arrival order
RECURSIVE ArgsOf(_, _)
ArgsOf(frames, index) ==
    IF frames = <<>> THEN <<>>
    ELSE (IF frames[1].k = "args" /\ frames[1].index = index
          THEN frames[1].json ELSE <<>>)
         \o ArgsOf(Tail(frames), index)

\* the tool calls a frame sequence describes: one per tool_start frame
RECURSIVE CallsOf(_, _)
CallsOf(frames, all) ==
    IF frames = <<>> THEN <<>>
    ELSE (IF frames[1].k = "tool_start"
          THEN <<[id |-> Str(frames[1].id), name |-> Str(frames[1].name),
                  arguments |-> ArgsOf(all, frames[1].index)]>>
          ELSE <<>>)
         \o CallsOf(Tail(frames), all)

\* the response r is the one the frames of the stream describe
Reconstructs(r) ==
    /\ r.content = Str(TextOf(sFrames))
    /\ r.tool_calls = CallsOf(sFrames, sFrames)

\* C17: in both formats the response returned for a frame sequence has the
\* text fragments concatenated in arrival order as its content and one tool
\* call per started call, whose arguments are its argument fragments
\* concatenated in arrival order; a stream without text and tool call gives
\* an empty content and no tool call, and is folded without error.  This
\* holds when every read delivers one frame, and for every other way of
\* cutting the stream in which no read ends inside a character
C17_FragmentsConcatenated ==
    /\ sRef.returned => Reconstructs(FinalResponse(sFormat, sRef))
    /\ sParser.returned /\ "char" \notin sCuts
           => Reconstructs(FinalResponse(sFormat, sParser))
    /\ sPhase = "folded" => result.kind # "err"

\* the three argument fragments of the first call of S_tool were put
\* together, with reads that ended inside a payload and between two lines
C17_Witness ==
    /\ sFrames = S_tool
    /\ sParser.returned
    /\ {"payload", "record"} \subseteq sCuts
    /\ Len(FinalResponse(sFormat, sParser).tool_calls) = 2
    /\ FinalResponse(sFormat, sParser).tool_calls[1].arguments =
           <<"{", "\"", "a", "\"", ":", "1", ",", "\"", "b", "\"", ":", "2", "}">>

\* C18: the response returned and the text deltas sent do not depend on
\* where the reads cut the byte stream: they are those of the same stream
\* read one frame per read
C18_CutIndependent ==
    sParser.returned =>
        /\ FinalResponse(sFormat, sParser) = FinalResponse(sFormat, sRef)
        /\ sParser.sent = sRef.sent

\* C19: a transport error during the stream makes process_message return an
\* error without appending a message and without touching the statistics,
\* and nothing is appended or counted for that call afterwards, whatever
\* deltas were or still are delivered
C19_TransportErrorIsHard ==
    [][/\ sPhase = "reading" /\ sPhase' = "failed" =>
              /\ result'.kind = "err"
              /\ pc' = "idle"
              /\ messages' = messages
              /\ stats' = stats
       /\ sPhase = "failed" =>
              /\ sPhase' = "failed"
              /\ result' = result
              /\ messages' = messages
              /\ stats' = stats]_vars

\* the stream failed after a text delta had been received and delivered
C19_Witness ==
    /\ sPhase = "failed"
    /\ result.kind = "err"
    /\ sParser.content # <<>>
    /\ \E a \in 1..Len(events) : events[a].type = "StreamDelta"
    /\ messages[Len(messages)].role = "User"
    /\ stats = SessionStats_default

\* a malformed line: one that is neither an event line (Format A) nor a
\* data line, or a data line whose payload is not parseable
Malformed(format, line) ==
    /\ line # <<>>
    /\ LET data == strip_prefix(line, DataPrefix)
       IN  IF data = None
           THEN format = "B" \/ strip_prefix(line, EventPrefix) = None
           ELSE IF format = "A" THEN from_str(data[1]) = None
           ELSE /\ Trim(data[1]) # W.DONE
                /\ \/ from_str(data[1]) = None
                   \/ ~ValidChunk(from_str(data[1])[1])

\* what a parser has accumulated and the text deltas it has sent
Accumulated(st) ==
    LET IsDelta(c) == c.kind = "TextDelta"
    IN  [content |-> st.content, tool_calls |-> st.tool_calls,
         input_tokens |-> st.input_tokens, output_tokens |-> st.output_tokens,
         usage |-> st.usage, current_event_type |-> st.current_event_type,
         deltas |-> SelectSeq(st.sent, IsDelta)]

\* the parser after these lines, the malformed ones taken out
RECURSIVE Replay(_, _, _)
Replay(format, st, lines) ==
    IF lines = <<>> THEN st
    ELSE Replay(format,
                IF Malformed(format, lines[1]) THEN st
                ELSE HandleLine(format, st, lines[1]),
                Tail(lines))

\* lines that are malformed in both formats: no record, a payload that is
\* cut short, an empty payload
MalformedLines ==
    {<<":", "k">>, <<"d", "a", "t", "a", ":", " ", "{", "x">>, <<"d", "a", "t", "a", ":", " ">>}

\* C20: a malformed line changes no accumulator and sends no delta, in
\* every state a parser is in; and what a parser has accumulated and sent
\* after the lines it has taken off the buffer is what it has after the same
\* lines without the malformed ones
C20_MalformedLineSkipped ==
    /\ \A m \in MalformedLines :
           /\ Malformed(sFormat, m)
           /\ Accumulated(HandleLine(sFormat, sParser, m)) = Accumulated(sParser)
    /\ (\E i \in 1..Len(sParser.lines) : Malformed(sFormat, sParser.lines[i]))
           => Accumulated(sParser)
                  = Accumulated(Replay(sFormat, ParserInit, sParser.lines))

\* a stream with a line that is no record and a data line that does not
\* parse was read to its end: the text and the call around them are complete
C20_Witness ==
    /\ sParser.returned
    /\ \E i, j \in 1..Len(sParser.lines) :
           /\ sParser.lines[i] = <<":", "k">>
           /\ i < j
           /\ strip_prefix(sParser.lines[j], DataPrefix) = Some(<<"{", "x">>)
    /\ Str(sParser.content) = "Hi"
    /\ Len(sParser.tool_calls) = 1
    /\ sParser.tool_calls[1].arguments = <<"{", "}">>

(***************************************************************************)
(* assess_risk on its own: one call, on the bash commands made of pipeline *)
(* stages, an output redirection and the separators && and ||, and on the  *)
(* other tools (src/tools/risk.rs)                                         *)
(***************************************************************************)
MaxParts == 2

MaxStages == 2

\* a pipeline stage: its first word and what follows it
Stage(word, args) == [word |-> word, args |-> args]

StagePool ==
    {Stage(<<"l", "s">>, <<" ", "-", "l", "a">>),
     Stage(<<"e", "c", "h", "o">>, <<" ", "x">>),
     Stage(<<"r", "m">>, <<" ", "-", "r", "f", " ", "/">>),
     Stage(<<"c", "p">>, <<" ", "a", " ", "b">>),
     Stage(<<".", "/", "x", "l", "s">>, <<>>),
     Stage(<<"s", "u">>, <<" ", "x">>)}

\* an output redirection: the operator, the blanks after it, the target
RedirectOps == {<<">">>, <<">", ">">>, <<"2", ">">>}

RedirectGaps == {<<>>, <<" ">>, <<"\t">>}

RedirectTargets ==
    {<<"/", "d", "e", "v", "/", "n", "u", "l", "l">>,
     <<"&", "1">>,
     <<"/", "t", "m", "p">>,
     <<"/", "t", "m", "p", "/", "l", "o", "g">>,
     <<"/", "v", "a", "r", "/", "t", "m", "p", "/", "o">>,
     <<"/", "e", "t", "c", "/", "h", "o", "s", "t", "s">>,
     <<"o", "u", "t", ".", "t", "x", "t">>}

Redirects ==
    {None} \cup {Some([op |-> op, gap |-> gap, target |-> target]) :
                      op \in RedirectOps, gap \in RedirectGaps,
                      target \in RedirectTargets}

SubCommand(stages, redirect) == [stages |-> stages, redirect |-> redirect]

RECURSIVE StagesText(_)
StagesText(stages) ==
    IF stages = <<>> THEN <<>>
    ELSE stages[1].word \o stages[1].args
         \o (IF Len(stages) = 1 THEN <<>>
             ELSE <<" ", "|", " ">> \o StagesText(Tail(stages)))

RedirectText(redirect) ==
    IF redirect = None THEN <<>>
    ELSE <<" ">> \o redirect[1].op \o redirect[1].gap \o redirect[1].target

SubCommandText(sc) == StagesText(sc.stages) \o RedirectText(sc.redirect)

Separators == {<<"&", "&">>, <<"|", "|">>}

RECURSIVE CommandText(_, _)
CommandText(parts, seps) ==
    IF parts = <<>> THEN <<>>
    ELSE SubCommandText(parts[1])
         \o (IF Len(parts) = 1 THEN <<>>
             ELSE <<" ">> \o seps[1] \o <<" ">>
                  \o CommandText(Tail(parts), Tail(seps)))

\* the arguments of a bash call running command
BashArguments(command) ==
    JObj(<<JMember(<<"c", "o", "m", "m", "a", "n", "d">>, JStr(command))>>)

SeqsUpTo(S, n) == UNION {[1..k -> S] : k \in 1..n}

\* commands of one sub-command
SingleCommands ==
    {<<SubCommand(stages, redirect)>> :
        stages \in SeqsUpTo(StagePool, MaxStages), redirect \in Redirects}

CompoundPool ==
    {SubCommand(<<Stage(<<"l", "s">>, <<" ", "-", "l", "a">>)>>, None),
     SubCommand(<<Stage(<<"e", "c", "h", "o">>, <<" ", "d", "o", "n", "e">>)>>, None),
     SubCommand(<<Stage(<<"r", "m">>, <<" ", "-", "r", "f", " ", "/">>)>>, None),
     SubCommand(<<Stage(<<"c", "p">>, <<" ", "a", " ", "b">>)>>, None),
     SubCommand(<<Stage(<<"l", "s">>, <<>>)>>,
                Some([op |-> <<">">>, gap |-> <<>>,
                      target |-> <<"/", "x">>]))}

\* commands of several sub-commands
CompoundCommands == UNION {[1..k -> CompoundPool] : k \in 2..MaxParts}

\* arguments that carry no command
RawArguments ==
    {<<"{", "}">>, <<"{">>,
     <<"{", "\"", "p", "a", "t", "h", "\"", ":", "\"", "a", "\"", "}">>}

RiskTools ==
    {"bash", "read_file", "list_directory", "write_file", "edit", "frob"}

\* Agent::new, no process_message under way
AgentOff ==
    /\ messages = <<Message_system(SystemPrompt)>>
    /\ max_iterations = 1
    /\ context_window = 30
    /\ tools = {"read_file", "bash"}
    /\ pc = "idle"
    /\ iterations = 0
    /\ request = <<>>
    /\ response = NoResponse
    /\ tcIdx = 0
    /\ mode = "headless"
    /\ events = <<>>
    /\ confirmEvent = None
    /\ pending_confirm = None
    /\ confirmChan = <<>>
    /\ senderAlive = FALSE
    /\ result = NoResult
    /\ preCompact = <<>>
    /\ modelCalls = 0
    /\ callLog = <<>>
    /\ stats = SessionStats_default
    /\ usageLog = <<>>

\* no streamed model call under way
StreamOff ==
    /\ sFormat = "A"
    /\ sFrames = <<>>
    /\ sBytes = <<>>
    /\ sFrameIdx = 0
    /\ sOff = 0
    /\ sParser = ParserInit
    /\ sRef = ParserInit
    /\ sPhase = "off"
    /\ sFwd = 0
    /\ sCuts = {}

\* a tool call about to be assessed
InitRisk ==
    /\ AgentOff
    /\ StreamOff
    /\ rTool \in RiskTools
    /\ \/ /\ rParts \in (IF rTool = "bash"
                         THEN SingleCommands \cup CompoundCommands
                         ELSE {<<sc>> : sc \in CompoundPool})
          /\ rSeps \in [1..(Len(rParts) - 1) -> Separators]
          /\ rArgs = BashArguments(CommandText(rParts, rSeps))
       \/ /\ rParts = <<>>
          /\ rSeps = <<>>
          /\ rArgs \in RawArguments
    /\ rRisk = "unset"
    /\ RouterOff
    /\ SwitchOff
    /\ SessionOff
    /\ ExtraOff

\* assess_risk(tool_name, arguments)
AssessRisk ==
    /\ rRisk = "unset"
    /\ rRisk' = assess_risk(rTool, rArgs)
    /\ UNCHANGED <<rTool, rParts, rSeps, rArgs>>
    /\ UNCHANGED <<agentVars, streamVars, routerVars, switchVars, sessionVars,
                   extraVars>>

NextRisk == AssessRisk

SpecRisk == InitRisk /\ [][NextRisk]_vars

(***************************************************************************)
(* Risk classification                                                     *)
(***************************************************************************)
Assessed == rRisk \in RiskLevel

RiskRank(level) ==
    CASE level = "Safe" -> 0 [] level = "Moderate" -> 1 [] level = "Dangerous" -> 2

MaxRisk(levels) ==
    CHOOSE l \in levels : \A m \in levels : RiskRank(m) <= RiskRank(l)

\* the risk of one sub-command taken alone
PartRisk(sc) == classify_single_command(SubCommandText(sc))

\* C21: the risk of a compound bash command is the maximum, in the order
\* Safe < Moderate < Dangerous, of the risks of the sub-commands separated by
\* && and ||, wherever the riskiest sub-command stands.
C21_CompoundIsMax ==
    Assessed /\ rTool = "bash" /\ rParts # <<>>
        => rRisk = MaxRisk({PartRisk(rParts[k]) : k \in 1..Len(rParts)})

\* a Safe sub-command followed by a Dangerous one has been assessed
C21_Witness ==
    /\ Assessed /\ rTool = "bash" /\ Len(rParts) = 2
    /\ PartRisk(rParts[1]) = "Safe"
    /\ PartRisk(rParts[2]) = "Dangerous"
    /\ rRisk = "Dangerous"

\* a stage of a sub-command of the command starts with a denylisted word
HasDenylistedStage ==
    \E k \in 1..Len(rParts) : \E s \in 1..Len(rParts[k].stages) :
        Str(rParts[k].stages[s].word) \in DANGEROUS_COMMAND_WORDS

\* C22: a bash command is Dangerous whenever the first word of any pipeline
\* stage of any of its sub-commands is on the denylist, whatever the other
\* stages, the redirections and the allowlisted first words of the command.
C22_DenylistIsDangerous ==
    Assessed /\ rTool = "bash" /\ HasDenylistedStage => rRisk = "Dangerous"

\* the denylisted word opens the second stage of a command whose first word
\* is allowlisted and whose output goes to /tmp
C22_Witness ==
    /\ Assessed /\ rTool = "bash" /\ Len(rParts) = 1
    /\ Len(rParts[1].stages) = 2
    /\ Str(rParts[1].stages[1].word) \in SAFE_PATTERNS
    /\ Str(rParts[1].stages[2].word) \in DANGEROUS_COMMAND_WORDS
    /\ rParts[1].redirect # None
    /\ Str(rParts[1].redirect[1].target) = "/tmp/log"
    /\ rRisk = "Dangerous"

\* the single sub-command of the command has a redirection and no stage of
\* it starts with a denylisted word
RedirectedAlone ==
    /\ Assessed /\ rTool = "bash" /\ Len(rParts) = 1
    /\ rParts[1].redirect # None
    /\ ~HasDenylistedStage

\* the targets the redirection may have without changing the risk
SafeRedirectTargets ==
    {"/dev/null", "&1", "/tmp", "/tmp/log", "/var/tmp/o"}

\* C23: without a denylist match, an output redirection (> or >>) to
\* /dev/null, to a file descriptor (&N) or to a path equal to or under /tmp
\* or /var/tmp leaves the risk of the sub-command unchanged, and a
\* redirection to any other target makes the command Dangerous.
C23_RedirectTargets ==
    RedirectedAlone
        => rRisk = IF Str(rParts[1].redirect[1].target) \in SafeRedirectTargets
                   THEN PartRisk(SubCommand(rParts[1].stages, None))
                   ELSE "Dangerous"

\* the single sub-command of the command has no denylisted stage and no
\* redirection to a target outside the safe ones
PlainAlone ==
    /\ Assessed /\ rTool = "bash" /\ Len(rParts) = 1
    /\ ~HasDenylistedStage
    /\ \/ rParts[1].redirect = None
       \/ Str(rParts[1].redirect[1].target) \in SafeRedirectTargets

\* C24: a bash command with no denylist match and no unsafe redirection is
\* Safe when its first word is an entry of the allowlist, and Moderate in
\* every other case.
C24_AllowlistOrModerate ==
    PlainAlone
        => rRisk = IF Str(rParts[1].stages[1].word) \in SAFE_PATTERNS
                   THEN "Safe" ELSE "Moderate"

\* C25: for every tool other than bash the risk depends on the tool name
\* only, never on the arguments: read_file and list_directory are Safe,
\* write_file and edit are Moderate, and no such call is ever Dangerous, so
\* that only bash calls can be held for confirmation.
C25_NonBashByName ==
    Assessed /\ rTool # "bash"
        => /\ rTool \in {"read_file", "list_directory"} => rRisk = "Safe"
           /\ rTool \in {"write_file", "edit"} => rRisk = "Moderate"
           /\ rRisk # "Dangerous"
           /\ ~NeedsConfirm([name |-> rTool, arguments |-> rArgs])

\* write_file has been assessed with arguments that would make a bash call
\* Dangerous
C25_Witness ==
    /\ Assessed /\ rTool = "write_file"
    /\ assess_bash_risk(rArgs) = "Dangerous"
    /\ rRisk = "Moderate"

(***************************************************************************)
(* ToolRouter::execute on its own: one call (src/tools/mod.rs)             *)
(***************************************************************************)
ToolNames == {"read_file", "bash", "edit"}

\* argument strings that are JSON texts
JsonArguments ==
    {<<"{", "}">>,
     <<"{", "\"", "p", "a", "t", "h", "\"", ":", "\"", "a", "\"", "}">>,
     <<"{", "\"", "a", "\"", ":", "1", ",", "\"", "b", "\"", ":", "[", "2", "]", "}">>,
     <<"\"", "x", "\"">>,
     <<"7">>,
     <<"n", "u", "l", "l">>,
     <<" ", "{", "\"", "c", "o", "m", "m", "a", "n", "d", "\"", ":", "\"", "l", "s", "\"", "}", " ">>}

\* argument strings that are not
NonJsonArguments ==
    {<<"{">>,
     <<>>,
     <<"{", "\"", "p", "a", "t", "h", "\"", ":", "a", "}">>,
     <<"{", "\"", "a", "\"", ":", "1", ",", "}">>,
     <<"{", "}", " ", "x">>}

\* a router, a name and arguments about to be handed to execute
InitRouter ==
    /\ AgentOff
    /\ StreamOff
    /\ RiskOff
    /\ SwitchOff
    /\ SessionOff
    /\ ExtraOff
    /\ xTools \in SUBSET ToolNames
    /\ xName \in ToolNames \cup {"frob"}
    /\ xArguments \in JsonArguments \cup NonJsonArguments
    /\ xOutcome \in ToolOutcomes
    /\ xResult = None

\* ToolRouter::execute(name, arguments)
RouterCall ==
    /\ xResult = None
    /\ xResult' = Some(RouterExecute(xTools, xName, xArguments, xOutcome))
    /\ UNCHANGED <<xTools, xName, xArguments, xOutcome>>
    /\ UNCHANGED <<agentVars, streamVars, riskVars, switchVars, sessionVars,
                   extraVars>>

NextRouter == RouterCall

SpecRouter == InitRouter /\ [][NextRouter]_vars

(***************************************************************************)
(* Router                                                                  *)
(***************************************************************************)
Routed == xResult # None

\* C26: ToolRouter.execute runs the tool if and only if the name is
\* registered and the arguments are a JSON text. An unregistered name fails
\* with the unknown-tool error whatever the arguments are, arguments that do
\* not parse fail with the invalid-arguments error for a registered name, no
\* tool runs in either case, and otherwise the result or the error of the
\* tool is returned as it is.
C26_RouterExecute ==
    Routed =>
        /\ xResult[1].invoked <=> (xName \in xTools /\ xArguments \in JsonArguments)
        /\ xName \notin xTools
             => xResult[1] = [ok |-> FALSE, text |-> "Unknown tool: " \o xName,
                           invoked |-> FALSE]
        /\ xName \in xTools /\ xArguments \in NonJsonArguments
             => xResult[1] = [ok |-> FALSE,
                           text |-> "Invalid JSON arguments for tool '"
                                      \o xName \o "': " \o Str(xArguments),
                           invoked |-> FALSE]
        /\ xResult[1].invoked
             => xResult[1].ok = xOutcome.ok /\ xResult[1].text = xOutcome.text

\* an unregistered name has been called with arguments that do not parse
C26_Witness ==
    /\ Routed
    /\ xName \notin xTools
    /\ xArguments \in NonJsonArguments
    /\ xResult[1].text = "Unknown tool: " \o xName

(***************************************************************************)
(* Model selection: Agent::switch_model and the parameters of the model    *)
(* call that follows (src/agent.rs, src/config.rs)                         *)
(***************************************************************************)
MaxSwitches == 2

\* a ModelEntry of the configuration. key says where its API key comes
\* from: "own" (api_key set), "env_missing" (api_key_env names a variable
\* that is not set), "default" (neither: the key of [llm])
ModelEntry(id, provider, model, window, model_tools, key) ==
    [id |-> id, provider |-> provider, model |-> model,
     context_window |-> window, tools |-> model_tools, key |-> key]

Models ==
    {ModelEntry("fast", "anthropic", "m-fast", 10, {}, "own"),
     ModelEntry("big", "openai_compatible", "m-big", 0, {"read_file"}, "default"),
     ModelEntry("nokey", "openai", "m-nokey", 30, {}, "env_missing"),
     ModelEntry("odd", "gemini", "m-odd", 30, {}, "own")}

\* the ids switch_model is called with; "ghost" is not configured
ModelIds == {"fast", "big", "nokey", "odd", "ghost"}

\* the AppConfig loaded at start-up: the [llm] key is set or not
AppConfigs ==
    {[llm |-> [provider |-> "anthropic", model |-> "m-llm",
               context_window |-> 30, has_key |-> k],
      models |-> Models] : k \in BOOLEAN}

Ok(v) == [ok |-> TRUE, val |-> v]

Err(e) == [ok |-> FALSE, val |-> e]

\* AppConfig::get_model_entry
get_model_entry(cfg, id) ==
    LET found == {m \in cfg.models : m.id = id}
    IN  IF found = {} THEN None
        ELSE LET m == CHOOSE e \in found : TRUE
             IN  Some([m EXCEPT !.context_window =
                           IF @ = 0 THEN cfg.llm.context_window ELSE @])

\* AppConfig::api_key
api_key(cfg) ==
    IF cfg.llm.has_key THEN Ok("key of llm") ELSE Err("API key not found")

\* AppConfig::api_key_for_model
api_key_for_model(cfg, model_id) ==
    LET entry == get_model_entry(cfg, model_id)
    IN  IF entry # None /\ entry[1].key = "own"
        THEN Ok("key of " \o model_id)
        ELSE IF entry # None /\ entry[1].key = "env_missing"
             THEN Err("API key for model '" \o model_id \o "' not found")
             ELSE api_key(cfg)

\* Agent::create_provider_for_model
create_provider_for_model(key, entry) ==
    IF entry.provider = "anthropic"
    THEN Ok([client |-> "AnthropicProvider", api_key |-> key])
    ELSE IF entry.provider \in {"openai_compatible", "openai"}
         THEN Ok([client |-> "OpenAiCompatibleProvider", api_key |-> key])
         ELSE Err("Unknown provider: '" \o entry.provider \o "'")

\* Agent::context_window
ContextWindow(cfg, model_id) ==
    LET entry == get_model_entry(cfg, model_id)
    IN  IF entry = None THEN cfg.llm.context_window
        ELSE IF entry[1].context_window > 0 THEN entry[1].context_window
             ELSE cfg.llm.context_window

\* Agent::tools_for_model: the names of the definitions sent to the model
tools_for_model(router, model_entry) ==
    IF model_entry.tools = {} THEN router
    ELSE {d \in router : d \in model_entry.tools}

\* the model entry process_message builds the ChatRequest from
current_model_entry(cfg, model_id) ==
    UnwrapOr(get_model_entry(cfg, model_id),
             ModelEntry(model_id, cfg.llm.provider, cfg.llm.model,
                        cfg.llm.context_window, {}, "default"))

\* histories the Agent may have when the model is switched
SwitchTranscripts ==
    {<<Message_system(SystemPrompt)>>,
     <<Message_system(SystemPrompt), Message_user("hi"),
       Message_assistant("ok")>>}

SwitchStats ==
    {SessionStats_default,
     [total_input_tokens |-> 3, total_output_tokens |-> 2,
      request_count |-> 1]}

\* Agent::create_with_model succeeded for current_model_id, and some
\* process_message calls may have completed since
InitSwitch ==
    /\ StreamOff
    /\ RiskOff
    /\ RouterOff
    /\ SessionOff
    /\ ExtraOff
    /\ config \in AppConfigs
    /\ current_model_id \in {"fast", "big"}
    /\ api_key_for_model(config, current_model_id).ok
    /\ llm = create_provider_for_model(
                 api_key_for_model(config, current_model_id).val,
                 get_model_entry(config, current_model_id)[1]).val
    /\ switches = 0
    /\ switched = None
    /\ built = None
    /\ messages \in SwitchTranscripts
    /\ max_iterations = 1
    /\ context_window = ContextWindow(config, current_model_id)
    /\ tools \in Routers
    /\ pc = "idle"
    /\ iterations = 0
    /\ request = <<>>
    /\ response = NoResponse
    /\ tcIdx = 0
    /\ mode = "headless"
    /\ events = <<>>
    /\ confirmEvent = None
    /\ pending_confirm = None
    /\ confirmChan = <<>>
    /\ senderAlive = FALSE
    /\ result = NoResult
    /\ preCompact = <<>>
    /\ modelCalls = 0
    /\ callLog = <<>>
    /\ stats \in SwitchStats
    /\ usageLog = <<>>

\* what every step of the model selection leaves alone
SwitchFrame ==
    UNCHANGED <<messages, max_iterations, tools, pc, iterations, request,
                response, tcIdx, mode, events, confirmEvent, pending_confirm,
                confirmChan, senderAlive, result, preCompact, modelCalls,
                callLog, stats, usageLog, streamVars, riskVars, routerVars,
                sessionVars, extraVars, config>>

\* switch_model returns the error e
SwitchFails(model_id, e) ==
    /\ switched' = Some([model_id |-> model_id, ok |-> FALSE, error |-> e])
    /\ UNCHANGED <<llm, current_model_id, context_window>>

\* mutation of SwitchModel: the model id is stored before the client is made
SwitchModel_early(model_id, cfg) ==
    /\ switches < MaxSwitches
    /\ switches' = switches + 1
    /\ built' = None
    /\ LET entry == get_model_entry(cfg, model_id)
           key == api_key_for_model(cfg, model_id)
       IN  IF entry = None
           THEN SwitchFails(model_id, "Model '" \o model_id \o "' not found")
           ELSE IF ~key.ok
                THEN SwitchFails(model_id, key.val)
                ELSE LET client == create_provider_for_model(key.val, entry[1])
                     IN  /\ current_model_id' = model_id
                         /\ context_window' = ContextWindow(config, model_id)
                         /\ llm' = IF client.ok THEN client.val ELSE llm
                         /\ switched' =
                              Some([model_id |-> model_id, ok |-> client.ok,
                                    error |-> IF client.ok THEN ""
                                              ELSE client.val])
    /\ SwitchFrame

\* Agent::switch_model(model_id, config)
SwitchModel(model_id, cfg) ==
    /\ switches < MaxSwitches
    /\ switches' = switches + 1
    /\ built' = None
    /\ LET entry == get_model_entry(cfg, model_id)
           key == api_key_for_model(cfg, model_id)
       IN  IF entry = None
           THEN SwitchFails(model_id, "Model '" \o model_id \o "' not found")
           ELSE IF ~key.ok
                THEN SwitchFails(model_id, key.val)
                ELSE LET client == create_provider_for_model(key.val, entry[1])
                     IN  IF ~client.ok
                         THEN SwitchFails(model_id, client.val)
                         ELSE /\ llm' = client.val
                              /\ current_model_id' = model_id
                              /\ context_window' =
                                     ContextWindow(config, model_id)
                              /\ switched' =
                                   Some([model_id |-> model_id, ok |-> TRUE,
                                         error |-> ""])
    /\ SwitchFrame

\* process_message prepares a model call: the window compact_context works
\* with, the model and the tool definitions of the ChatRequest
BuildRequest ==
    /\ built = None
    /\ LET model_entry == current_model_entry(config, current_model_id)
       IN  built' = Some([model |-> model_entry.model,
                          context_window |->
                              ContextWindow(config, current_model_id),
                          tools |-> tools_for_model(tools, model_entry),
                          llm |-> llm])
    /\ UNCHANGED <<llm, current_model_id, context_window, switches, switched>>
    /\ SwitchFrame

\* a Safe bash call
TC_ls ==
    [id |-> "call_d", name |-> "bash",
     arguments |-> <<"{", "\"", "c", "o", "m", "m", "a", "n", "d", "\"", ":", "\"", "l", "s", "\"", "}">>]

\* a call of a tool no router has
TC_frob == [id |-> "call_e", name |-> "frob", arguments |-> <<"{", "}">>]

\* process_message handles a tool call of the response to the request built,
\* without confirmation receiver: a Dangerous call is denied, any other is
\* handed to tool_router.execute
RunToolCall(tc, outcome) ==
    /\ built # None
    /\ xResult = None
    /\ xName' = tc.name
    /\ xArguments' = tc.arguments
    /\ xOutcome' = outcome
    /\ xResult' =
           IF NeedsConfirm(tc)
           THEN Some([ok |-> FALSE, text |-> deny_msg(tc.name),
                      invoked |-> FALSE])
           ELSE Some(RouterExecute(tools, tc.name, tc.arguments, outcome))
    /\ UNCHANGED <<xTools, agentVars, streamVars, riskVars, switchVars,
                   sessionVars, extraVars>>

\* the caller hands switch_model the AppConfig loaded at start-up, of which
\* the Agent holds a copy
NextSwitch ==
    \/ \E model_id \in ModelIds : SwitchModel(model_id, config)
    \/ BuildRequest
    \/ \E tc \in {TC_read, TC_ls, TC_rm, TC_frob}, outcome \in ToolOutcomes :
           RunToolCall(tc, outcome)

SpecSwitch == InitSwitch /\ [][NextSwitch]_vars

(***************************************************************************)
(* Model switching                                                         *)
(***************************************************************************)
\* the ids switch_model succeeds for: configured, with an API key and a
\* known provider
Switchable(cfg, id) == id = "fast" \/ (id = "big" /\ cfg.llm.has_key)

\* the context window of those models
WindowOf == [id \in {"fast", "big"} |-> IF id = "fast" THEN 10 ELSE 30]

\* the tools of the router those models are offered
AllowedOf(router, id) ==
    IF id = "big" THEN router \cap {"read_file"} ELSE router

\* C27: switch_model changes only the model client and the current model
\* id. The transcript, the tool router and SessionStats are the same before
\* and after; when it fails (unknown model id, missing API key, unknown
\* provider) the Agent is left as it was, client and model id included; and
\* the model call prepared after a successful switch uses the context window
\* and the tool allow-list of the new model.
C27_SwitchModelFrame ==
    [][/\ switches' # switches
          => /\ messages' = messages
             /\ tools' = tools
             /\ stats' = stats
             /\ config' = config
             /\ IF Switchable(config, switched'[1].model_id)
                THEN /\ switched'[1].ok
                     /\ current_model_id' = switched'[1].model_id
                ELSE /\ ~switched'[1].ok
                     /\ llm' = llm
                     /\ current_model_id' = current_model_id
                     /\ context_window' = context_window
       /\ (built = None /\ built' # None /\ switched # None
           /\ switched[1].ok)
          => /\ built'[1].context_window = WindowOf[switched[1].model_id]
             /\ built'[1].tools = AllowedOf(tools, switched[1].model_id)
             /\ built'[1].llm = llm
      ]_vars

\* after two turns the model was switched to "big", and the next model call
\* was prepared with its window and with read_file only
C27_Witness ==
    /\ switched # None
    /\ switched[1].ok
    /\ switched[1].model_id = "big"
    /\ Len(messages) = 3
    /\ stats.request_count = 1
    /\ tools = {"read_file", "bash"}
    /\ built # None
    /\ built[1].context_window = 30
    /\ built[1].tools = {"read_file"}

(***************************************************************************)
(* Sessions saved to disk and loaded back (src/session.rs, src/types.rs,   *)
(* src/ui/ratatui_ui.rs). The texts of a session are character sequences.  *)
(***************************************************************************)
MaxSession == 2

\* a JSON string literal as serde_json writes it
SerStr(cs) == <<"\"">> \o JsonEscape(cs) \o <<"\"">>

\* the indentation of the pretty printer at depth d
Indent(d) == [k \in 1..(2 * d) |-> " "]

\* the items of an object or array at depth d, one per line
RECURSIVE PrettyItems(_, _)
PrettyItems(items, d) ==
    IF items = <<>> THEN <<>>
    ELSE <<"\n">> \o Indent(d) \o items[1]
         \o (IF Len(items) > 1 THEN <<",">> ELSE <<>>)
         \o PrettyItems(Tail(items), d)

\* an object or array of depth d as serde_json::to_string_pretty writes it
PrettyBlock(open, close, items, d) ==
    IF items = <<>> THEN <<open, close>>
    ELSE <<open>> \o PrettyItems(items, d + 1) \o <<"\n">> \o Indent(d)
         \o <<close>>

PrettyMember(key, value) == SerStr(key) \o <<":", " ">> \o value

\* #[serde(rename_all = "lowercase")] on Role
SerRole(role) ==
    CASE role = "System" -> <<"s", "y", "s", "t", "e", "m">>
      [] role = "User" -> <<"u", "s", "e", "r">>
      [] role = "Assistant" -> <<"a", "s", "s", "i", "s", "t", "a", "n", "t">>
      [] role = "Tool" -> <<"t", "o", "o", "l">>

SerToolCall(tc, d) ==
    PrettyBlock("{", "}",
        <<PrettyMember(<<"i", "d">>, SerStr(tc.id)),
          PrettyMember(<<"n", "a", "m", "e">>, SerStr(tc.name)),
          PrettyMember(<<"a", "r", "g", "u", "m", "e", "n", "t", "s">>, SerStr(tc.arguments))>>, d)

\* mutation of SerMessage: the tool calls are not written
SerMessage_bare(m, d) ==
    PrettyBlock("{", "}",
        <<PrettyMember(<<"r", "o", "l", "e">>, SerStr(SerRole(m.role))),
          PrettyMember(<<"c", "o", "n", "t", "e", "n", "t">>, SerStr(m.content))>>
        \o (IF m.tool_call_id = None THEN <<>>
            ELSE <<PrettyMember(<<"t", "o", "o", "l", "_", "c", "a", "l", "l", "_", "i", "d">>,
                                SerStr(m.tool_call_id[1]))>>), d)

\* Serialize for Message: tool_calls is skipped when empty, tool_call_id
\* when None
SerMessage(m, d) ==
    PrettyBlock("{", "}",
        <<PrettyMember(<<"r", "o", "l", "e">>, SerStr(SerRole(m.role))),
          PrettyMember(<<"c", "o", "n", "t", "e", "n", "t">>, SerStr(m.content))>>
        \o (IF m.tool_calls = <<>> THEN <<>>
            ELSE <<PrettyMember(<<"t", "o", "o", "l", "_", "c", "a", "l", "l", "s">>,
                       PrettyBlock("[", "]",
                           [k \in 1..Len(m.tool_calls) |->
                               SerToolCall(m.tool_calls[k], d + 2)],
                           d + 1))>>)
        \o (IF m.tool_call_id = None THEN <<>>
            ELSE <<PrettyMember(<<"t", "o", "o", "l", "_", "c", "a", "l", "l", "_", "i", "d">>,
                                SerStr(m.tool_call_id[1]))>>), d)

SerStats(st, d) ==
    PrettyBlock("{", "}",
        <<PrettyMember(<<"t", "o", "t", "a", "l", "_", "i", "n", "p", "u", "t", "_", "t", "o", "k", "e", "n", "s">>, JNum(st.total_input_tokens)),
          PrettyMember(<<"t", "o", "t", "a", "l", "_", "o", "u", "t", "p", "u", "t", "_", "t", "o", "k", "e", "n", "s">>, JNum(st.total_output_tokens)),
          PrettyMember(<<"r", "e", "q", "u", "e", "s", "t", "_", "c", "o", "u", "n", "t">>, JNum(st.request_count))>>, d)

\* serde_json::to_string_pretty(data) for a SessionData
to_string_pretty(data) ==
    PrettyBlock("{", "}",
        <<PrettyMember(<<"i", "d">>, SerStr(data.id)),
          PrettyMember(<<"n", "a", "m", "e">>, SerStr(data.name)),
          PrettyMember(<<"c", "r", "e", "a", "t", "e", "d", "_", "a", "t">>, SerStr(data.created_at)),
          PrettyMember(<<"a", "g", "e", "n", "t", "_", "m", "e", "s", "s", "a", "g", "e", "s">>,
              PrettyBlock("[", "]",
                  [k \in 1..Len(data.agent_messages) |->
                      SerMessage(data.agent_messages[k], 2)], 1)),
          PrettyMember(<<"u", "i", "_", "m", "e", "s", "s", "a", "g", "e", "s">>,
              PrettyBlock("[", "]",
                  [k \in 1..Len(data.ui_messages) |->
                      SerStr(data.ui_messages[k])], 1)),
          PrettyMember(<<"s", "t", "a", "t", "s">>, SerStats(data.stats, 1))>>, 0)

\* Deserialize for Role
DeRole(opt) ==
    IF opt = None THEN None
    ELSE IF opt[1] = <<"s", "y", "s", "t", "e", "m">> THEN Some("System")
    ELSE IF opt[1] = <<"u", "s", "e", "r">> THEN Some("User")
    ELSE IF opt[1] = <<"a", "s", "s", "i", "s", "t", "a", "n", "t">> THEN Some("Assistant")
    ELSE IF opt[1] = <<"t", "o", "o", "l">> THEN Some("Tool")
    ELSE None

\* Deserialize for Vec<T>: de reads one element
DeVec(opt, de(_)) ==
    IF opt = None \/ opt[1].t # "arr" THEN None
    ELSE LET items == [k \in 1..Len(opt[1].elems) |-> de(Some(opt[1].elems[k]))]
         IN  IF \E k \in 1..Len(items) : items[k] = None THEN None
             ELSE Some([k \in 1..Len(items) |-> items[k][1]])

\* Deserialize for ToolCall
DeToolCall(opt) ==
    LET id == AsStr(AndGet(opt, "id"))
        name == AsStr(AndGet(opt, "name"))
        arguments == AsStr(AndGet(opt, "arguments"))
    IN  IF id = None \/ name = None \/ arguments = None THEN None
        ELSE Some([id |-> id[1], name |-> name[1], arguments |-> arguments[1]])

\* Deserialize for Message: tool_calls and tool_call_id are #[serde(default)]
DeMessage(opt) ==
    LET role == DeRole(AsStr(AndGet(opt, "role")))
        content == AsStr(AndGet(opt, "content"))
        calls == AndGet(opt, "tool_calls")
        tool_calls == IF calls = None THEN Some(<<>>)
                      ELSE DeVec(calls, DeToolCall)
        id == AndGet(opt, "tool_call_id")
        tool_call_id == IF id = None \/ id[1].t = "null" THEN Some(None)
                        ELSE IF id[1].t = "str" THEN Some(Some(id[1].s))
                        ELSE None
    IN  IF role = None \/ content = None \/ tool_calls = None
           \/ tool_call_id = None
        THEN None
        ELSE Some([role |-> role[1], content |-> content[1],
                   tool_calls |-> tool_calls[1],
                   tool_call_id |-> tool_call_id[1]])

\* Deserialize for SessionStatsData
DeStats(opt) ==
    LET i == AsU64(AndGet(opt, "total_input_tokens"))
        o == AsU64(AndGet(opt, "total_output_tokens"))
        r == AsU64(AndGet(opt, "request_count"))
    IN  IF i = None \/ o = None \/ r = None THEN None
        ELSE Some([total_input_tokens |-> i[1], total_output_tokens |-> o[1],
                   request_count |-> r[1]])

\* serde_json::from_str::<SessionData>(content)
DeSessionData(content) ==
    LET v == from_str(content)
        id == AsStr(AndGet(v, "id"))
        name == AsStr(AndGet(v, "name"))
        created_at == AsStr(AndGet(v, "created_at"))
        agent_messages == DeVec(AndGet(v, "agent_messages"), DeMessage)
        ui_messages == DeVec(AndGet(v, "ui_messages"), AsStr)
        st == DeStats(AndGet(v, "stats"))
    IN  IF id = None \/ name = None \/ created_at = None
           \/ agent_messages = None \/ ui_messages = None \/ st = None
        THEN None
        ELSE Some([id |-> id[1], name |-> name[1],
                   created_at |-> created_at[1],
                   agent_messages |-> agent_messages[1],
                   ui_messages |-> ui_messages[1], stats |-> st[1]])

\* SessionStatsData::from(&SessionStats)
SessionStatsData_from(st) ==
    [total_input_tokens |-> st.total_input_tokens,
     total_output_tokens |-> st.total_output_tokens,
     request_count |-> st.request_count]

\* SessionStatsData::to_session_stats
to_session_stats(data) ==
    [total_input_tokens |-> data.total_input_tokens,
     total_output_tokens |-> data.total_output_tokens,
     request_count |-> data.request_count]

\* the tool call of the session transcripts
SessionCall ==
    [id |-> ID_call_a, name |-> NAME_read_file, arguments |-> TC_read.arguments]

\* messages a transcript may hold after the system prompt
SessionMessages ==
    {Message_user(<<"h", "i">>),
     Message_user(<<"a", "\"", "\\", "\n", "\t", E_ACUTE>>),
     Message_assistant(<<"o", "k">>),
     Message_assistant_with_tool_calls(<<>>, <<SessionCall>>),
     Message_assistant_with_tool_calls(<<"o", "k">>, <<SessionCall, SessionCall>>),
     Message_tool_result(ID_call_a, <<"f", "n", " ", "m", "a", "i", "n", "(", ")", " ", "{", "}">>),
     Message_tool_result(<<>>, <<>>)}

SessionTranscripts ==
    {<<Message_system(<<"s", "y", "s">>)>> \o t :
        t \in UNION {[1..k -> SessionMessages] : k \in 0..MaxSession}}

SessionStatsPool ==
    {SessionStats_default,
     [total_input_tokens |-> 3, total_output_tokens |-> 2, request_count |-> 1],
     [total_input_tokens |-> 120, total_output_tokens |-> 45,
      request_count |-> 10]}

\* a tab whose Agent has a transcript and stats, not yet saved
InitSession ==
    /\ StreamOff
    /\ RiskOff
    /\ RouterOff
    /\ SwitchOff
    /\ ExtraOff
    /\ saved = None
    /\ file = None
    /\ restored = None
    /\ messages \in SessionTranscripts
    /\ max_iterations = 1
    /\ context_window = 30
    /\ tools = {"read_file", "bash"}
    /\ pc = "idle"
    /\ iterations = 0
    /\ request = <<>>
    /\ response = NoResponse
    /\ tcIdx = 0
    /\ mode = "tab"
    /\ events = <<>>
    /\ confirmEvent = None
    /\ pending_confirm = None
    /\ confirmChan = <<>>
    /\ senderAlive = FALSE
    /\ result = NoResult
    /\ preCompact = <<>>
    /\ modelCalls = 0
    /\ callLog = <<>>
    /\ stats \in SessionStatsPool
    /\ usageLog = <<>>

\* SessionTab::to_session_data and session::save_session
SaveSession ==
    /\ file = None
    /\ LET data == [id |-> <<"a", "b", "1", "2", "c", "d", "3", "4">>, name |-> <<"S", "e", "s", "s", "i", "o", "n", " ", "1">>,
                    created_at |-> <<"2", "0", "2", "6", "-", "0", "1", "-", "0", "1", " ", "0", "0", ":", "0", "0", ":", "0", "0">>,
                    agent_messages |-> messages,
                    ui_messages |-> <<<<"Y", "o", "u", ":", " ", "h", "i">>>>,
                    stats |-> SessionStatsData_from(stats)]
       IN  /\ saved' = Some(data)
           /\ file' = Some(to_string_pretty(data))
    /\ UNCHANGED <<restored, agentVars, streamVars, riskVars, routerVars,
                   switchVars, extraVars>>

\* session::load_session and load_session_as_tab: a new Agent gets the
\* messages and the stats of the file
LoadSession ==
    /\ file # None
    /\ restored = None
    /\ LET data == DeSessionData(file[1])
       IN  restored' =
               IF data = None THEN Some([ok |-> FALSE])
               ELSE Some([ok |-> TRUE, messages |-> data[1].agent_messages,
                          stats |-> to_session_stats(data[1].stats)])
    /\ UNCHANGED <<saved, file, agentVars, streamVars, riskVars, routerVars,
                   switchVars, extraVars>>

NextSession == SaveSession \/ LoadSession

SpecSession == InitSession /\ [][NextSession]_vars

(***************************************************************************)
(* Session round trip                                                      *)
(***************************************************************************)
\* C28: a session written in the persisted format and loaded back gives the
\* same messages, in the same order, with the same roles, contents, tool
\* calls and tool_call ids, and the same three counters; SessionStats turned
\* into SessionStatsData and back is unchanged.
C28_SessionRoundTrip ==
    /\ restored # None
          => /\ restored[1].ok
             /\ restored[1].messages = messages
             /\ restored[1].stats = stats
    /\ to_session_stats(SessionStatsData_from(stats)) = stats

\* a transcript with a tool call, its result and a text with characters
\* that JSON escapes has been saved and loaded
C28_Witness ==
    /\ restored # None
    /\ restored[1].ok
    /\ stats.request_count = 10
    /\ \E k \in 1..Len(messages) : messages[k].tool_calls # <<>>
    /\ \E k \in 1..Len(messages) :
           \E j \in 1..Len(messages[k].content) :
               messages[k].content[j] = "\""

(***************************************************************************)
(* End of an invocation                                                    *)
(***************************************************************************)
\* the events of evts from position a on
EventsFrom(evts, a) == SubSeq(evts, a, Len(evts))

\* the number of events of evts of the given types
CountEvents(evts, types) ==
    Cardinality({k \in 1..Len(evts) : evts[k].type \in types})

\* C29: when the response of the model carries no tool call, process_message
\* appends exactly one Assistant message with the content of the response
\* and no tool calls at the end of the transcript, emits exactly one Done
\* event with that content as its last event, makes no further model call
\* and returns that content.
C29_FinalAnswer ==
    [][(pc = "llm" /\ pc' = "idle" /\ result'.kind = "ok")
          => /\ messages' = Append(messages, Message_assistant(result'.text))
             /\ modelCalls' = modelCalls
             /\ mode' = mode
             /\ mode = "headless" => events' = events
             /\ mode = "tab"
                  => /\ Len(events') > Len(events)
                     /\ SubSeq(events', 1, Len(events)) = events
                     /\ events'[Len(events')] =
                           [type |-> "Done", text |-> result'.text]
                     /\ CountEvents(events', {"Done"}) = 1
                     /\ \A k \in (Len(events) + 1)..(Len(events') - 1) :
                            events'[k].type = "StreamDelta"
                     /\ DeltaText(EventsFrom(events', Len(events) + 1)) =
                            result'.text
      ]_vars

\* a tab's invocation has returned the answer that followed a tool call: the
\* answer is the last message and Done the last event
C29_Witness ==
    /\ pc = "idle"
    /\ mode = "tab"
    /\ result = [kind |-> "ok", text |-> "ok"]
    /\ Len(messages) >= 5
    /\ messages[Len(messages)] = Message_assistant("ok")
    /\ messages[Len(messages) - 1].role = "Tool"
    /\ events # <<>>
    /\ events[Len(events)] = [type |-> "Done", text |-> "ok"]
    /\ CountEvents(events, {"StreamDelta"}) >= 1

\* C30: every process_message run with an event sink ends its event stream
\* with exactly one terminal event, Done when it returns Ok and Error when a
\* model call failed, and no event follows the terminal event.
C30_TerminalEvent ==
    (pc = "idle" /\ mode = "tab" /\ result # NoResult)
        => /\ events # <<>>
           /\ events[Len(events)].type =
                 (IF result.kind = "ok" THEN "Done" ELSE "Error")
           /\ CountEvents(events, {"Done", "Error"}) = 1

(***************************************************************************)
(* The streaming parsers on their own: frames in every order, read one or  *)
(* several frames per read (src/llm/anthropic.rs 268-397,                  *)
(* src/llm/openai_compatible.rs 307-399)                                   *)
(***************************************************************************)
\* frames of a stream parsed on its own
MaxFrames == 3

\* the frames the streams are made of: the opening of the calls of index 0
\* and 1, a second name fragment for index 0, argument fragments for both
\* indices, a text fragment and the stop frame
ParseFrames ==
    {ToolStartFrame(0, <<"a">>, <<"f">>),
     ToolStartFrame(0, <<"a">>, <<"h">>),
     ToolStartFrame(1, <<"b">>, <<"g">>),
     ArgsFrame(0, <<"{">>), ArgsFrame(0, <<"}">>), ArgsFrame(1, <<"1">>),
     TextFrame(<<"H">>), StopFrame}

\* the streams: up to MaxFrames different frames in every order
ParseStreams ==
    UNION {{s \in [1..n -> ParseFrames] :
                \A a, b \in 1..n : a # b => s[a] # s[b]} : n \in 1..MaxFrames}

\* the bytes of the frames a..b of the stream
RECURSIVE ParseBytes(_, _)
ParseBytes(a, b) ==
    IF a > b THEN <<>>
    ELSE Encode(pFormat, pFrames[a]) \o ParseBytes(a + 1, b)

\* chat_completion_stream has sent its request and got the byte stream
InitParse ==
    /\ AgentOff
    /\ StreamOff
    /\ RiskOff
    /\ RouterOff
    /\ SwitchOff
    /\ SessionOff
    /\ TabOff
    /\ pFormat \in {"A", "B"}
    /\ pFrames \in ParseStreams
    /\ pPos = 0
    /\ pParser = ParserInit

\* byte_stream.next() gives the bytes of the next n frames
ParseRead(n) ==
    /\ ~pParser.returned
    /\ pPos + n <= Len(pFrames)
    /\ pParser' = OnRead(pFormat, pParser, ParseBytes(pPos + 1, pPos + n))
    /\ pPos' = pPos + n
    /\ UNCHANGED <<pFormat, pFrames>>
    /\ UNCHANGED <<agentVars, streamVars, riskVars, routerVars, switchVars,
                   sessionVars, tabVars>>

\* byte_stream.next() gives None: the code after the read loop
ParseEnd ==
    /\ ~pParser.returned
    /\ pPos = Len(pFrames)
    /\ pParser' = SendDone(pParser)
    /\ UNCHANGED <<pFormat, pFrames, pPos>>
    /\ UNCHANGED <<agentVars, streamVars, riskVars, routerVars, switchVars,
                   sessionVars, tabVars>>

NextParse == (\E n \in 1..(MaxSpan + 1) : ParseRead(n)) \/ ParseEnd

SpecParse == InitParse /\ [][NextParse]_vars

\* the frames the reads have delivered
Delivered == SubSeq(pFrames, 1, pPos)

\* how many of the first p frames open a tool call
StartsUpTo(frames, p) ==
    Cardinality({q \in 1..p : frames[q].k = "tool_start"})

\* the argument fragments of this index that arrive after frame p,
\* concatenated in arrival order
ArgsAfter(frames, p, index) == ArgsOf(SubSeq(frames, p + 1, Len(frames)), index)

\* frame p opens a block, and no other frame opens one of the same index
OpensOnce(frames, p) ==
    /\ frames[p].k = "tool_start"
    /\ \A q \in 1..Len(frames) :
           frames[q].k = "tool_start" /\ frames[q].index = frames[p].index
               => q = p

\* C33: in Format A the arguments of the tool call opened by the
\* content_block_start of index i are the partial_json fragments of index i
\* that arrived since, in arrival order, whatever the order of blocks and
\* fragments is
C33_FragmentsByIndex ==
    pFormat = "A" =>
        \A p \in 1..pPos :
            OpensOnce(Delivered, p) =>
                pParser.tool_calls[StartsUpTo(Delivered, p)].arguments =
                    ArgsAfter(Delivered, p, Delivered[p].index)

\* the blocks arrive one after the other
Sequential(frames) ==
    \A p, q \in 1..Len(frames) :
        p < q /\ frames[p].k = "tool_start" /\ frames[q].k = "args"
            /\ frames[p].index # frames[q].index
            => \E m \in (p + 1)..(q - 1) :
                   /\ frames[m].k = "tool_start"
                   /\ frames[m].index = frames[q].index

\* with the blocks one after the other the fragments reach their call
C33_Sequential ==
    pFormat = "A" /\ Sequential(Delivered) =>
        \A p \in 1..pPos :
            OpensOnce(Delivered, p) =>
                pParser.tool_calls[StartsUpTo(Delivered, p)].arguments =
                    ArgsAfter(Delivered, p, Delivered[p].index)

\* the frames before the [DONE] sentinel, all of them when there is none
BeforeDone(frames) ==
    IF \E p \in 1..Len(frames) : frames[p].k = "stop"
    THEN SubSeq(frames, 1,
                (CHOOSE p \in 1..Len(frames) :
                     /\ frames[p].k = "stop"
                     /\ \A q \in 1..(p - 1) : frames[q].k # "stop") - 1)
    ELSE frames

\* the tool-call indices that appear in the frames
IndicesOf(frames) ==
    {frames[p].index :
         p \in {q \in 1..Len(frames) : frames[q].k \in {"tool_start", "args"}}}

\* the name fragments of this index, concatenated in arrival order
RECURSIVE NamesOf(_, _)
NamesOf(frames, index) ==
    IF frames = <<>> THEN <<>>
    ELSE (IF frames[1].k = "tool_start" /\ frames[1].index = index
          THEN frames[1].name ELSE <<>>)
         \o NamesOf(Tail(frames), index)

\* the id received for this index, empty when none was
IdOf(frames, index) ==
    LET at == {p \in 1..Len(frames) :
                   frames[p].k = "tool_start" /\ frames[p].index = index}
    IN  IF at = {} THEN <<>>
        ELSE frames[CHOOSE p \in at : \A q \in at : q <= p].id

\* the calls of the list are those of the indices seen, in index order,
\* each made of the fragments of its index
CallsByIndex(calls, seen) ==
    /\ Len(calls) = Cardinality(IndicesOf(seen))
    /\ \A k \in IndicesOf(seen) :
           LET c == calls[Cardinality({j \in IndicesOf(seen) : j <= k})]
           IN  /\ c.id = Str(IdOf(seen, k))
               /\ c.name = Str(NamesOf(seen, k))
               /\ c.arguments = ArgsOf(seen, k)

\* C34: in Format B the tool-call list returned has one ToolCall for each
\* index that appeared in the stream, in index order, whose name and
\* arguments are the fragments received for the index, concatenated in
\* arrival order, and whose id is the id received for it
C34_OneCallPerIndex ==
    pFormat = "B" /\ pParser.returned =>
        CallsByIndex(FinalResponse("B", pParser).tool_calls,
                     BeforeDone(Delivered))

\* the same when the indices that appear are 0, 1, .. without a gap
C34_Contiguous ==
    pFormat = "B" /\ pParser.returned
        /\ (\A k \in IndicesOf(BeforeDone(Delivered)) :
                \A j \in 0..k : j \in IndicesOf(BeforeDone(Delivered)))
        => CallsByIndex(FinalResponse("B", pParser).tool_calls,
                        BeforeDone(Delivered))

\* the Format B parser state after these frames, read one frame per read
RECURSIVE ParseAll(_, _)
ParseAll(st, frames) ==
    IF frames = <<>> \/ st.returned THEN st
    ELSE ParseAll(OnRead("B", st, Encode("B", frames[1])), Tail(frames))

\* the text deltas of a frame sequence: one per non-empty text fragment
RECURSIVE DeltasOf(_)
DeltasOf(frames) ==
    IF frames = <<>> THEN <<>>
    ELSE (IF frames[1].k = "text" /\ frames[1].text # <<>>
          THEN <<TextDelta(frames[1].text)>> ELSE <<>>)
         \o DeltasOf(Tail(frames))

\* C35: in Format B the call returns at the [DONE] sentinel with the
\* response and the deltas of exactly the frames before it, whatever
\* follows the sentinel in the same read, and a stream that ends without
\* sentinel returns what was accumulated from all its frames
C35_DoneEndsParsing ==
    pFormat = "B" /\ pParser.returned =>
        LET pre == BeforeDone(Delivered)
            ref == ParseAll(ParserInit, pre)
        IN  /\ FinalResponse("B", pParser) = FinalResponse("B", ref)
            /\ FinalResponse("B", pParser).content = Str(TextOf(pre))
            /\ pParser.sent = DeltasOf(pre) \o <<ChunkDone>>
            /\ (pre = Delivered => pPos = Len(pFrames))

\* the sentinel was read together with a text frame that follows it
C35_Witness ==
    /\ pFormat = "B"
    /\ pParser.returned
    /\ \E p \in 1..(pPos - 1) :
           /\ Delivered[p].k = "stop"
           /\ Delivered[p + 1].k = "text"
           /\ \A q \in 1..(p - 1) : Delivered[q].k = "args"

(***************************************************************************)
(* The tool allow-list of the active model                                 *)
(***************************************************************************)
\* C40: when the active model has a non-empty tool allow-list,
\* process_message runs no tool whose name is not on the list, whatever
\* tool the response names
C40_OnlyListedToolsRun ==
    [][(xResult = None /\ xResult' # None /\ xResult'[1].invoked
        /\ current_model_entry(config, current_model_id).tools # {})
          => xName' \in current_model_entry(config, current_model_id).tools
      ]_vars

\* the same for the models without allow-list and for the tools offered:
\* what runs is a tool of the router
C40_RegisteredToolsRun ==
    [][(xResult = None /\ xResult' # None /\ xResult'[1].invoked)
          => xName' \in tools]_vars

(***************************************************************************)
(* Termination of process_message (src/agent.rs 286-430)                   *)
(***************************************************************************)
\* the model call returns: a response or an error
ModelReturns ==
    \/ \E r \in Responses(MaxCalls) :
           LlmRespond(r.content, r.tool_calls, r.usage)
    \/ LlmFail

\* the tool execution returns
ToolReturns == \E o \in ToolOutcomes : ToolReturn(o)

\* the user decides on the pending confirmation, or the tab is closed
Answered == (\E yes \in BOOLEAN : UIKey(yes)) \/ CloseTab

\* the invocation is at the top of its loop and the Agent has sent all the
\* requests it sends in its life
OutOfRequests ==
    /\ pc = "loop"
    /\ ~CapReached(iterations + 1, max_iterations)
    /\ stats.request_count >= MaxRequests

\* process_message where the task of the Agent is scheduled, model calls and
\* tool executions return, the event loop handles the confirmation event
\* and the user answers it or closes the tab
\* (the weak fairness of HandleToolCall and of ToolReturns is written out,
\* with the guard of the action where WF_ has ENABLED: both actions are
\* enabled, and change the state, exactly where pc is "tools" and "exec")
SpecLive ==
    /\ Spec
    /\ WF_vars(LoopHead)
    /\ WF_vars(ConfirmRecv)
    /\ WF_vars(ModelReturns)
    /\ WF_vars(UIHandleEvent)
    /\ WF_vars(Answered)
    /\ ([]<>(pc # "tools") \/ []<><<HandleToolCall>>_vars)
    /\ ([]<>(pc # "exec") \/ []<><<ToolReturns>>_vars)

\* one streamed model call where the forwarding task and the task of the
\* Agent are scheduled
SpecStreamLive ==
    /\ SpecStream
    /\ WF_vars(Forward)
    /\ WF_vars(StreamFold)

C36_ForwarderEnds == (sPhase = "returned") ~> (sPhase = "folded")

MaxInputs == 3
\* confirmation requests in the life of the program
MaxAsks == 2

\* the tab slots: the first tab, and one opened by /new or /load
TabIds == {1, 2}

\* session::generate_session_id for the tab of this slot
IdText(t) == <<"i", DigitChar(t)>>

\* the text of the n-th user message
InputText(n) == <<"u", DigitChar(n)>>

\* Agent::create: the system prompt and fresh statistics
NewAgent ==
    [messages |-> <<Message_system(<<"s">>)>>, stats |-> SessionStats_default]

\* lines of the conversation view
YouLine(n) == <<"Y", "o", "u", ":", " ">> \o InputText(n)

AssistantLine == <<"A", ":", " ", "o", "k">>

ErrorLine == <<"E", "r", "r", "o", "r", ":", " ", "e">>

ConfirmLine == <<"?", " ", "[", "Y", "/", "N", "]">>

CancelLine == <<"x">>

SavedLine == <<"[", "s", "a", "v", "e", "d", "]">>

LoadedLine == <<"[", "l", "o", "a", "d", "e", "d", "]">>

CreatedLine == <<"[", "n", "e", "w", "]">>

\* a slot no tab was opened in, or whose tab was closed
EmptySlot(slot) ==
    [slot |-> slot, id |-> <<>>, messages |-> <<>>, processing |-> FALSE,
     cached_stats |-> SessionStats_default, agent |-> None,
     event_rx |-> None, agent_handle |-> None, pending_messages |-> <<>>,
     confirm_tx |-> None, pending_confirm |-> None]

\* SessionTab::new(id, name, agent)
SessionTab_new(id, agent) ==
    [EmptySlot("open") EXCEPT !.id = id, !.agent = Some(agent)]

\* SessionTab::to_session_data
to_session_data(tb) ==
    [id |-> tb.id, name |-> <<"S">>, created_at |-> <<"t">>,
     agent_messages |-> IF tb.agent # None THEN tb.agent[1].messages
                        ELSE <<>>,
     ui_messages |-> tb.messages,
     stats |-> SessionStatsData_from(tb.cached_stats)]

\* session::save_session(data): the file of the session id is replaced
save_session(fs, data) == [fs EXCEPT ![data.id] = Some(data)]

\* SessionTab::auto_save
auto_save(fs, tb) == save_session(fs, to_session_data(tb))

\* the task spawned for the n-th user message: process_message has pushed
\* the message to the transcript of the Agent moved into the task
NewTask(t, n, agent) ==
    [tab |-> t, input |-> n,
     agent |-> [agent EXCEPT
                   !.messages = Append(@, Message_user(InputText(n)))],
     pc |-> "run", asked |-> 0, evt |-> <<>>, cfm |-> <<>>, got |-> <<>>,
     joined |-> FALSE]

\* the tab after agent.take() and tokio::spawn: the receiver of the events,
\* the sender of the decisions and the handle of task k
Spawned(tb, k) ==
    [tb EXCEPT !.agent = None, !.event_rx = Some(k), !.confirm_tx = Some(k),
               !.agent_handle = Some(k)]

\* SessionTab::handle_agent_event for the events that touch the fields above
handle_agent_event(tb, evt) ==
    IF evt.type = "ToolConfirm"
    THEN [tb EXCEPT !.pending_confirm = Some(evt.req),
                    !.messages = Append(@, ConfirmLine)]
    ELSE [tb EXCEPT !.processing = FALSE,
                    !.messages = Append(@, AssistantLine)]

\* while let Ok(evt) = rx.try_recv() { .. }: the events handled, up to the
\* first terminal one
RECURSIVE Drain(_, _)
Drain(tb, evs) ==
    IF evs = <<>> THEN [tab |-> tb, rest |-> <<>>, terminal |-> FALSE]
    ELSE LET tb1 == handle_agent_event(tb, evs[1])
         IN  IF evs[1].type \in {"Done", "Error"}
             THEN [tab |-> tb1, rest |-> Tail(evs), terminal |-> TRUE]
             ELSE Drain(tb1, Tail(evs))

\* match handle.await: the Agent comes back with an Ok result only
Joined(tb, task) ==
    IF task.pc = "ok"
    THEN [tb EXCEPT !.cached_stats = task.agent.stats,
                    !.agent = Some(task.agent)]
    ELSE [tb EXCEPT !.messages = Append(@, ErrorLine),
                    !.processing = FALSE]

\* mutation of send_next_pending: the newest queued message is sent first
send_next_pending_lifo(tb, t, k, fs) ==
    LET n == Len(tb.pending_messages)
        msg == tb.pending_messages[n]
        shown == [tb EXCEPT !.pending_messages = SubSeq(@, 1, n - 1),
                            !.messages = Append(@, YouLine(msg)),
                            !.processing = TRUE]
        moved == IF shown.agent # None THEN Spawned(shown, k) ELSE shown
    IN  [tab |-> moved,
         spawn |-> IF shown.agent # None
                   THEN <<NewTask(t, msg, shown.agent[1])>> ELSE <<>>,
         files |-> auto_save(fs, moved)]

\* SessionTab::send_next_pending with a non-empty queue: the tab, the task
\* spawned if the tab has its Agent, and the files after its auto_save
send_next_pending(tb, t, k, fs) ==
    LET msg == Head(tb.pending_messages)
        shown == [tb EXCEPT !.pending_messages = Tail(@),
                            !.messages = Append(@, YouLine(msg)),
                            !.processing = TRUE]
        moved == IF shown.agent # None THEN Spawned(shown, k) ELSE shown
    IN  [tab |-> moved,
         spawn |-> IF shown.agent # None
                   THEN <<NewTask(t, msg, shown.agent[1])>> ELSE <<>>,
         files |-> auto_save(fs, moved)]

\* the sender of the decisions of task k exists: an open tab holds it
SenderAlive(k) ==
    \E t \in TabIds : tabs[t].slot = "open" /\ tabs[t].confirm_tx = Some(k)

\* the program starts: one tab with a new Agent, no session file
InitTab ==
    /\ AgentOff
    /\ StreamOff
    /\ RiskOff
    /\ RouterOff
    /\ SwitchOff
    /\ SessionOff
    /\ ParseOff
    /\ tabs = [t \in TabIds |->
                  IF t = 1 THEN SessionTab_new(IdText(1), NewAgent)
                  ELSE EmptySlot("none")]
    /\ tasks = <<>>
    /\ active_tab = 1
    /\ files = [id \in {IdText(t) : t \in TabIds} |-> None]
    /\ inputs = 0
    /\ quit = FALSE

\* what no step of the terminal UI touches
TabFrame ==
    UNCHANGED <<agentVars, streamVars, riskVars, routerVars, switchVars,
                sessionVars, parseVars>>

\* Enter with a message on the active tab: queued while the tab is
\* processing, else shown, saved and handed to a new task with the Agent
Submit ==
    /\ ~quit
    /\ inputs < MaxInputs
    /\ LET t == active_tab
           n == inputs + 1
           tb == tabs[t]
           shown == [tb EXCEPT !.messages = Append(@, YouLine(n)),
                               !.processing = TRUE]
       IN  /\ inputs' = n
           /\ IF tb.processing
              THEN /\ tabs' = [tabs EXCEPT
                                  ![t].pending_messages = Append(@, n)]
                   /\ UNCHANGED <<tasks, files>>
              ELSE /\ files' = auto_save(files, shown)
                   /\ IF shown.agent # None
                      THEN /\ tabs' = [tabs EXCEPT
                                 ![t] = Spawned(shown, Len(tasks) + 1)]
                           /\ tasks' = Append(tasks,
                                 NewTask(t, n, shown.agent[1]))
                      ELSE /\ tabs' = [tabs EXCEPT ![t] = shown]
                           /\ UNCHANGED tasks
    /\ UNCHANGED <<active_tab, quit>>
    /\ TabFrame

\* one pass of the event loop over tab t whose channel holds events: they
\* are handled up to the terminal one; after it the task is joined, the
\* session saved and the next queued message sent
Poll(t) ==
    /\ ~quit
    /\ tabs[t].slot = "open"
    /\ tabs[t].event_rx # None
    /\ LET k == tabs[t].event_rx[1]
           d == Drain([tabs[t] EXCEPT !.event_rx = None], tasks[k].evt)
           h == d.tab.agent_handle
           tb1 == IF h # None
                  THEN Joined([d.tab EXCEPT !.agent_handle = None],
                              tasks[h[1]])
                  ELSE d.tab
           fs1 == auto_save(files, tb1)
           nxt == send_next_pending(tb1, t, Len(tasks) + 1, fs1)
           left == [tasks EXCEPT ![k].evt = d.rest]
           done == IF h # None THEN [left EXCEPT ![h[1]].joined = TRUE]
                   ELSE left
       IN  /\ tasks[k].evt # <<>>
           /\ IF d.terminal
              THEN /\ h # None => tasks[h[1]].pc \in {"ok", "err"}
                   /\ IF tb1.pending_messages # <<>>
                      THEN /\ tabs' = [tabs EXCEPT ![t] = nxt.tab]
                           /\ tasks' = done \o nxt.spawn
                           /\ files' = nxt.files
                      ELSE /\ tabs' = [tabs EXCEPT ![t] = tb1]
                           /\ tasks' = done
                           /\ files' = fs1
              ELSE /\ tabs' = [tabs EXCEPT
                                  ![t] = [d.tab EXCEPT !.event_rx = Some(k)]]
                   /\ tasks' = left
                   /\ UNCHANGED files
    /\ UNCHANGED <<active_tab, inputs, quit>>
    /\ TabFrame

\* mutation of TabKey: the pending confirmation stays after the key
TabKey_sticky(yes) ==
    /\ ~quit
    /\ tabs[active_tab].pending_confirm # None
    /\ LET tb == tabs[active_tab]
           said == IF yes THEN tb
                   ELSE [tb EXCEPT !.messages = Append(@, CancelLine)]
       IN  /\ tabs' = [tabs EXCEPT ![active_tab] = said]
           /\ tasks' = IF tb.confirm_tx # None
                       THEN [tasks EXCEPT ![tb.confirm_tx[1]].cfm =
                                Append(@, [val |-> yes,
                                           for |-> tb.pending_confirm[1]])]
                       ELSE tasks
    /\ UNCHANGED <<active_tab, files, inputs, quit>>
    /\ TabFrame

\* Y (TRUE) or N (FALSE) while the active tab has a confirmation pending
TabKey(yes) ==
    /\ ~quit
    /\ tabs[active_tab].pending_confirm # None
    /\ LET tb == tabs[active_tab]
           cleared == [tb EXCEPT !.pending_confirm = None]
           said == IF yes THEN cleared
                   ELSE [cleared EXCEPT !.messages = Append(@, CancelLine)]
       IN  /\ tabs' = [tabs EXCEPT ![active_tab] = said]
           /\ tasks' = IF tb.confirm_tx # None
                       THEN [tasks EXCEPT ![tb.confirm_tx[1]].cfm =
                                Append(@, [val |-> yes,
                                           for |-> tb.pending_confirm[1]])]
                       ELSE tasks
    /\ UNCHANGED <<active_tab, files, inputs, quit>>
    /\ TabFrame

\* Ctrl+Left, Ctrl+Right: the other open tab becomes the active one
SwitchTab ==
    /\ ~quit
    /\ \A t \in TabIds : tabs[t].slot = "open"
    /\ active_tab' = 3 - active_tab
    /\ UNCHANGED <<tabs, tasks, files, inputs, quit>>
    /\ TabFrame

\* /new: create_new_tab and the line that announces the session
NewTab ==
    /\ ~quit
    /\ inputs < MaxInputs
    /\ inputs' = inputs + 1
    /\ tabs[2].slot = "none"
    /\ tabs' = [tabs EXCEPT ![2] =
                   [SessionTab_new(IdText(2), NewAgent) EXCEPT
                       !.messages = <<CreatedLine>>]]
    /\ active_tab' = 2
    /\ UNCHANGED <<tasks, files, quit>>
    /\ TabFrame

\* /load id: session::load_session and load_session_as_tab; the new tab has
\* the id, the messages and the stats of the file
LoadTab(id) ==
    /\ ~quit
    /\ inputs < MaxInputs
    /\ inputs' = inputs + 1
    /\ tabs[2].slot = "none"
    /\ files[id] # None
    /\ LET data == DeSessionData(to_string_pretty(files[id][1]))
           agent == [messages |-> data[1].agent_messages,
                     stats |-> to_session_stats(data[1].stats)]
       IN  IF data = None
           THEN /\ tabs' = [tabs EXCEPT
                               ![active_tab].messages = Append(@, ErrorLine)]
                /\ UNCHANGED active_tab
           ELSE /\ tabs' = [tabs EXCEPT ![2] =
                       [SessionTab_new(data[1].id, agent) EXCEPT
                           !.messages = Append(data[1].ui_messages, LoadedLine),
                           !.cached_stats = to_session_stats(data[1].stats)]]
                /\ active_tab' = 2
    /\ UNCHANGED <<tasks, files, quit>>
    /\ TabFrame

\* /close with two tabs open: the active tab is removed, with its receiver,
\* its sender and its handle; its task goes on
CloseTabCommand ==
    /\ ~quit
    /\ inputs < MaxInputs
    /\ inputs' = inputs + 1
    /\ \A t \in TabIds : tabs[t].slot = "open"
    /\ tabs' = [tabs EXCEPT ![active_tab] = EmptySlot("closed")]
    /\ active_tab' = 3 - active_tab
    /\ UNCHANGED <<tasks, files, quit>>
    /\ TabFrame

\* /save (and /export, which hands the same data to export_session)
SaveCommand ==
    /\ ~quit
    /\ inputs < MaxInputs
    /\ inputs' = inputs + 1
    /\ files' = auto_save(files, tabs[active_tab])
    /\ tabs' = [tabs EXCEPT ![active_tab].messages = Append(@, SavedLine)]
    /\ UNCHANGED <<tasks, active_tab, quit>>
    /\ TabFrame

\* auto_save of the open tabs from slot t on
RECURSIVE SaveAll(_, _)
SaveAll(fs, t) ==
    IF t \notin TabIds THEN fs
    ELSE SaveAll(IF tabs[t].slot = "open" THEN auto_save(fs, tabs[t]) ELSE fs,
                 t + 1)

\* /quit: every tab is saved and the event loop ends
Quit ==
    /\ ~quit
    /\ inputs < MaxInputs
    /\ inputs' = inputs + 1
    /\ files' = SaveAll(files, 1)
    /\ quit' = TRUE
    /\ UNCHANGED <<tabs, tasks, active_tab>>
    /\ TabFrame

\* the confirmations asked by the tasks from k on
RECURSIVE AsksMade(_)
AsksMade(k) == IF k > Len(tasks) THEN 0 ELSE tasks[k].asked + AsksMade(k + 1)

\* task k asks for a confirmation: the ToolConfirm event, then recv()
TaskAsk(k) ==
    /\ tasks[k].pc = "run"
    /\ AsksMade(1) < MaxAsks
    /\ tasks' = [tasks EXCEPT
                    ![k].asked = @ + 1,
                    ![k].evt = Append(@, [type |-> "ToolConfirm",
                                          req |-> <<k, tasks[k].asked + 1>>]),
                    ![k].pc = "confirm"]
    /\ UNCHANGED <<tabs, active_tab, files, inputs, quit>>
    /\ TabFrame

\* recv() of task k returns: the oldest decision, or None when the channel
\* is empty and its sender gone
TaskRecv(k) ==
    /\ tasks[k].pc = "confirm"
    /\ tasks[k].cfm # <<>> \/ ~SenderAlive(k)
    /\ tasks' = [tasks EXCEPT
                    ![k].got = Append(@,
                        [req |-> <<k, tasks[k].asked>>,
                         decision |-> IF tasks[k].cfm # <<>>
                                      THEN Some(tasks[k].cfm[1])
                                      ELSE None]),
                    ![k].cfm = IF @ # <<>> THEN Tail(@) ELSE @,
                    ![k].pc = "run"]
    /\ UNCHANGED <<tabs, active_tab, files, inputs, quit>>
    /\ TabFrame

\* process_message of task k returns Ok: the Done event is sent, the
\* response is in the transcript and the request counted
TaskDone(k) ==
    /\ tasks[k].pc = "run"
    /\ tasks' = [tasks EXCEPT
                    ![k].evt = Append(@, [type |-> "Done"]),
                    ![k].agent.messages =
                        Append(@, Message_assistant(<<"o", "k">>)),
                    ![k].agent.stats.request_count = @ + 1,
                    ![k].pc = "ok"]
    /\ UNCHANGED <<tabs, active_tab, files, inputs, quit>>
    /\ TabFrame

\* process_message of task k returns Err: no event is sent, and
\* result.map(|_| moved_agent) drops the Agent
TaskFail(k) ==
    /\ tasks[k].pc = "run"
    /\ tasks' = [tasks EXCEPT ![k].pc = "err"]
    /\ UNCHANGED <<tabs, active_tab, files, inputs, quit>>
    /\ TabFrame

NextTab ==
    \/ Submit
    \/ \E t \in TabIds : Poll(t)
    \/ \E yes \in BOOLEAN : TabKey(yes)
    \/ SwitchTab
    \/ NewTab
    \/ \E id \in DOMAIN files : LoadTab(id)
    \/ CloseTabCommand
    \/ SaveCommand
    \/ Quit
    \/ \E k \in 1..Len(tasks) : TaskAsk(k)
    \/ \E k \in 1..Len(tasks) : TaskRecv(k)
    \/ \E k \in 1..Len(tasks) : TaskDone(k)
    \/ \E k \in 1..Len(tasks) : TaskFail(k)

SpecTab == InitTab /\ [][NextTab]_vars

\* ---- one process_message task per tab ----

\* task k has been spawned and process_message has not returned
InFlight(k) == tasks[k].pc \in {"run", "confirm"}

\* the tasks spawned by tab t, in the order of their spawning
TasksOf(t) == {k \in 1..Len(tasks) : tasks[k].tab = t}

\* the state part of C31
OneTaskPerTab ==
    \A t \in TabIds :
        /\ Cardinality({k \in TasksOf(t) : InFlight(k)}) <= 1
        /\ \A k \in TasksOf(t) :
               /\ InFlight(k) => tabs[t].agent = None
               /\ (InFlight(k) /\ tabs[t].slot = "open") => tabs[t].processing
               /\ \A j \in TasksOf(t) :
                      j < k => (tasks[j].joined /\ tasks[j].input < tasks[k].input)
               /\ \A i \in 1..Len(tabs[t].pending_messages) :
                      tasks[k].input < tabs[t].pending_messages[i]
        /\ \A i, j \in 1..Len(tabs[t].pending_messages) :
               i < j => tabs[t].pending_messages[i] < tabs[t].pending_messages[j]
        /\ tabs[t].pending_messages # <<>> => tabs[t].processing

\* the step part of C31, for tab t
QueuedThenDispatched(t) ==
    /\ (tabs[t].processing /\ active_tab = t /\ Submit)
           => (/\ tasks' = tasks
               /\ tabs'[t].messages = tabs[t].messages
               /\ tabs'[t].pending_messages =
                      Append(tabs[t].pending_messages, inputs'))
    /\ (tabs[t].slot = "open" /\ TasksOf(t)' # TasksOf(t)
            /\ tabs[t].pending_messages # <<>>)
           => (/\ tasks'[Len(tasks')].input = Head(tabs[t].pending_messages)
               /\ tabs'[t].pending_messages = Tail(tabs[t].pending_messages)
               /\ \E k \in TasksOf(t) :
                      /\ ~tasks[k].joined
                      /\ tasks'[k].joined
                      /\ tasks[k].evt # <<>>
                      /\ tasks[k].evt[Len(tasks[k].evt)].type = "Done")

\* C31: a tab has at most one process_message task in flight, and its Agent
\* is away while the task runs; an input submitted while the tab is
\* processing is queued; the queued inputs are dispatched oldest first, each
\* in the step that handles the terminal event of the turn before it
C31_OneTaskPerTab ==
    /\ []OneTaskPerTab
    /\ [][\A t \in TabIds : QueuedThenDispatched(t)]_vars

\* two inputs were queued behind a running turn and the first was dispatched
C31_Witness ==
    \E k \in 1..Len(tasks) :
        /\ k > 1
        /\ InFlight(k)
        /\ tasks[k - 1].tab = tasks[k].tab
        /\ tasks[k - 1].joined
        /\ tabs[tasks[k].tab].pending_messages # <<>>

\* ---- confirmation decisions ----

\* the requests that the decisions sent to task k were sent for: those that
\* a recv() has returned, then those waiting in the channel
RECURSIVE Returned(_)
Returned(got) ==
    IF got = <<>> THEN <<>>
    ELSE (IF got[1].decision # None THEN <<got[1].decision[1].for>> ELSE <<>>)
             \o Returned(Tail(got))

SentTo(k) ==
    Returned(tasks[k].got)
        \o [i \in 1..Len(tasks[k].cfm) |-> tasks[k].cfm[i].for]

\* C32: the decision a recv() of a task returns was sent for the request that
\* this recv() waits on; a decision waiting in a channel is for the request
\* its task is blocked on, so no later call, later turn or other tab takes
\* it; at most one decision is sent for a request
C32_DecisionMatchesRequest ==
    \A k \in 1..Len(tasks) :
        /\ \A i \in 1..Len(tasks[k].got) :
               tasks[k].got[i].decision # None
                   => tasks[k].got[i].decision[1].for = tasks[k].got[i].req
        /\ \A i \in 1..Len(tasks[k].cfm) :
               /\ tasks[k].pc = "confirm"
               /\ tasks[k].cfm[i].for = <<k, tasks[k].asked>>
        /\ \A i \in 1..Len(tasks[k].got) : tasks[k].got[i].req[1] = k
        /\ \A i, j \in 1..Len(SentTo(k)) :
               i < j => SentTo(k)[i] # SentTo(k)[j]

\* one turn asked twice and each recv() returned its own decision
C32_Witness ==
    \E k \in 1..Len(tasks) :
        /\ Len(tasks[k].got) = 2
        /\ \A i \in 1..2 : tasks[k].got[i].decision # None
        /\ tasks[k].got[1].decision[1].val # tasks[k].got[2].decision[1].val

\* the tasks of two tabs each got a decision
C32_TwoTabs ==
    \E j, k \in 1..Len(tasks) :
        /\ tasks[j].tab # tasks[k].tab
        /\ tasks[j].got # <<>> /\ tasks[j].got[1].decision # None
        /\ tasks[k].got # <<>> /\ tasks[k].got[1].decision # None

\* ---- session files ----

\* C38: a step that writes a session file never replaces a stored non-empty
\* agent transcript by an empty one
C38_SaveKeepsTranscript ==
    [][\A id \in DOMAIN files :
          (files[id] # None /\ files[id][1].agent_messages # <<>>)
              => files'[id][1].agent_messages # <<>>]_vars

\* /save on a tab that holds its Agent writes the transcript of the Agent
C38_SaveOutsideTurn ==
    [][(SaveCommand /\ tabs[active_tab].agent # None)
          => files'[tabs[active_tab].id][1].agent_messages
                 = tabs[active_tab].agent[1].messages]_vars

\* ---- restored sessions ----

\* the tab that a step opened from a session file has an Agent whose
\* transcript starts with the System message
RestoredWithSystem ==
    /\ tabs'[2].agent # None
    /\ tabs'[2].agent[1].messages # <<>>
    /\ tabs'[2].agent[1].messages[1].role = "System"

\* C39: after a session file that the program wrote is restored into a new
\* tab, the transcript of the tab's Agent is non-empty and its first message
\* has role System
C39_RestoredStartsWithSystem ==
    [][\A id \in DOMAIN files :
          (LoadTab(id) /\ tabs'[2].slot = "open") => RestoredWithSystem]_vars

\* the same for the files whose stored transcript is not empty
C39_RestoredFromFullFile ==
    [][\A id \in DOMAIN files :
          (/\ LoadTab(id)
           /\ tabs'[2].slot = "open"
           /\ files[id][1].agent_messages # <<>>) => RestoredWithSystem]_vars

\* ---- the end of a turn ----

\* a step of task k that does not wait for anything
TaskRuns(k) ==
    /\ k <= Len(tasks)
    /\ TaskAsk(k) \/ TaskDone(k) \/ TaskFail(k)

\* recv() of task k returns
TaskWakes(k) == k <= Len(tasks) /\ TaskRecv(k)

\* the user turns to the tab that asks for a confirmation
Attend ==
    /\ tabs[active_tab].pending_confirm = None
    /\ tabs[3 - active_tab].pending_confirm # None
    /\ SwitchTab

\* the user answers the confirmation of the active tab
Answer == \E yes \in BOOLEAN : TabKey(yes)

\* the event loop keeps polling every tab, every task is scheduled, and the
\* user answers the confirmations asked
SpecTabLive ==
    /\ SpecTab
    /\ \A t \in TabIds : WF_vars(Poll(t))
    /\ \A k \in 1..MaxInputs : WF_vars(TaskRuns(k)) /\ WF_vars(TaskWakes(k))
    /\ WF_vars(Attend)
    /\ SF_vars(Answer)

\* task k has been spawned and its tab has handled the end of its turn: the
\* tab has the Agent of the task back, or has dispatched the next queued
\* message with it, and shows the error of a failed turn
TurnHandled(k) ==
    /\ k <= Len(tasks)
    /\ \/ quit
       \/ tabs[tasks[k].tab].slot # "open"
       \/ /\ tasks[k].joined
          /\ tabs[tasks[k].tab].agent_handle # Some(k)
          /\ \/ tabs[tasks[k].tab].agent # None
             \/ \E j \in (k + 1)..Len(tasks) : tasks[j].tab = tasks[k].tab
          /\ tasks[k].pc = "err"
                 => \E i \in 1..Len(tabs[tasks[k].tab].messages) :
                        tabs[tasks[k].tab].messages[i] = ErrorLine

\* C37: every message a tab dispatched to a task is followed by the tab
\* handling the end of the turn, whether the turn succeeds or fails
C37_TurnEnds == \A k \in 1..MaxInputs : (k <= Len(tasks)) ~> TurnHandled(k)

\* the same for the turns that do not fail
C37_OkTurnEnds ==
    \A k \in 1..MaxInputs :
        (k <= Len(tasks))
            ~> (TurnHandled(k) \/ (k <= Len(tasks) /\ tasks[k].pc = "err"))

\* a failed turn is never handled: its tab stays in the processing state
\* without its Agent
C37_FailedTurnStuck ==
    \A k \in 1..Len(tasks) :
        (tasks[k].pc = "err" /\ tabs[tasks[k].tab].slot = "open")
            => (/\ ~tasks[k].joined
                /\ tabs[tasks[k].tab].processing
                /\ tabs[tasks[k].tab].agent = None
                /\ tabs[tasks[k].tab].agent_handle = Some(k))

====
